---- MODULE Spec2Model ----
(***************************************************************************)
(* Model of the session and routing layer of mpc-web's sdk2 drivers.       *)
(*                                                                         *)
(* Strings are sequences of one-character strings; the C terminator is     *)
(* the position Len(s)+1, read as NUL.  The routers are modelled at the    *)
(* character level (strstr, strchr, the brace counters), the drivers as    *)
(* the sequence of engine calls their main functions make.                 *)
(***************************************************************************)
EXTENDS Integers, Sequences, FiniteSets, TLC

VARIABLES
    sent,            \* sent[q][p]: payload the engine of party q addressed to p (<<>> = none)
    round_outputs,   \* round_outputs[q]: the envelope string of party q
    target_party,    \* the party a batch is built for
    router,          \* which router copy ran: "none", "convert", "refresh", "ed25519"
    result,          \* the batch string the router built
    message_count,   \* number of spans appended
    picked,          \* the spans appended, in append order: [from, start, span]
    status,          \* "ok": batch handed to the engine; "abort": driver jumped to cleanup
    driver,          \* the driver program that runs ("none" in the router specification)
    pc,              \* index of the driver's next step; 0 once it has returned
    handles,         \* handles[h]: "null", "live" (initialized) or "destroyed"
    buffers,         \* buffers[b]: "null", "owned" (handed over by libmpc) or "freed"
    contents,        \* contents[b]: the bytes of output buffer b
    calls,           \* the libmpc calls made so far: [name, kind, h, rc]
    ret,             \* return value of the test function (of main where there is none)
    exit_code,       \* exit status of the process
    sessions,        \* sessions[h]: the engine's session behind handle h
    jni              \* the last call of a native entry point of the language bridge

routerVars == <<sent, round_outputs, target_party, router, result, message_count,
                picked, status>>

driverVars == <<driver, pc, handles, buffers, contents, calls, ret, exit_code>>

bridgeVars == <<sessions, jni>>

vars == <<routerVars, driverVars, bridgeVars>>

(***************************************************************************)
(* Bounds and program constants                                            *)
(***************************************************************************)
TOTAL_PARTIES == 3

\* at most MaxOdd envelope entries differ from the plain payload
MaxOdd == 2

\* an envelope loses at most MaxTrunc trailing characters
MaxTrunc == 2

\* in a driver run at most MaxIncomplete round outputs lack an entry
MaxIncomplete == 1

Parties == 1..TOTAL_PARTIES

(***************************************************************************)
(* C strings                                                               *)
(***************************************************************************)
Q == "\""

NUL == "NUL"

CharAt(s, i) == IF i >= 1 /\ i <= Len(s) THEN s[i] ELSE NUL

SetMin(S) == CHOOSE m \in S : \A x \in S : m <= x

\* strstr(s + from - 1, k): index of the first occurrence of k at or after from, 0 if none
StrStr(s, k) ==
    LET idx == {i \in 1..(Len(s) - Len(k) + 1) : SubSeq(s, i, i + Len(k) - 1) = k}
    IN  IF idx = {} THEN 0 ELSE SetMin(idx)

\* strchr(s + from - 1, c)
StrChr(s, from, c) ==
    LET idx == {i \in from..Len(s) : s[i] = c}
    IN  IF idx = {} THEN 0 ELSE SetMin(idx)

\* sprintf(target_key, "\"%d\":", target_party)
TargetKey(p) == <<Q, ToString(p), Q, ":">>

(***************************************************************************)
(* Envelope wire format: {"<to>":<payload>,...}, keys ascending            *)
(***************************************************************************)
Absent == <<>>

Obj(key, val) == <<"{", Q, key, Q, ":">> \o val \o <<"}">>

StrVals == { <<Q, Q>>, <<Q, "{", Q>>, <<Q, "}", Q>> }

FieldKeys == {"d"} \cup {ToString(p) : p \in Parties}

PlainPayload == Obj("d", <<Q, Q>>)

Payloads == {Obj(k, v) : k \in FieldKeys, v \in StrVals \cup {<<"{", "}">>}}

RECURSIVE EncodeFrom(_, _)
EncodeFrom(env, p) ==
    IF p > TOTAL_PARTIES THEN <<>>
    ELSE LET rest == EncodeFrom(env, p + 1)
         IN  IF env[p] = Absent THEN rest
             ELSE <<Q, ToString(p), Q, ":">> \o env[p]
                  \o (IF rest = <<>> THEN <<>> ELSE <<",">> \o rest)

Encode(env) == <<"{">> \o EncodeFrom(env, 1) \o <<"}">>

Truncate(s, t) == SubSeq(s, 1, IF Len(s) > t THEN Len(s) - t ELSE 0)

(***************************************************************************)
(* The brace scans                                                         *)
(***************************************************************************)
BraceDelta(ch) == IF ch = "{" THEN 1 ELSE IF ch = "}" THEN -1 ELSE 0

\* a scan that takes the first '}' for the matching one
DoWhileScan_first(s, pos, bc) ==
    LET e == StrChr(s, pos, "}")
    IN  IF e = 0 THEN <<Len(s) + 1, 1, Len(s) + 1>> ELSE <<e + 1, 0, e>>

\* a scan that goes on while brace_count > 0, without the test of *msg_end
RECURSIVE DoWhileScan_unchecked(_, _, _)
DoWhileScan_unchecked(s, pos, bc) ==
    LET bc2 == bc + BraceDelta(CharAt(s, pos))
    IN  IF bc2 > 0 /\ pos <= Len(s) + 1
        THEN DoWhileScan_unchecked(s, pos + 1, bc2)
        ELSE <<pos + 1, bc2, pos>>

\* do { ... msg_end++; } while (brace_count > 0 && *msg_end);
\* returns <<msg_end, brace_count, the highest index dereferenced>>
RECURSIVE DoWhileScan(_, _, _)
DoWhileScan(s, pos, bc) ==
    LET bc2 == bc + BraceDelta(CharAt(s, pos))
    IN  IF bc2 > 0 /\ CharAt(s, pos + 1) # NUL
        THEN DoWhileScan(s, pos + 1, bc2)
        ELSE <<pos + 1, bc2, IF bc2 > 0 THEN pos + 1 ELSE pos>>

\* while (*msg_end && brace_count > 0) { ... msg_end++; }
RECURSIVE WhileScan(_, _, _)
WhileScan(s, pos, bc) ==
    IF CharAt(s, pos) # NUL /\ bc > 0
    THEN WhileScan(s, pos + 1, bc + BraceDelta(CharAt(s, pos)))
    ELSE <<pos, bc, pos>>

\* read: the highest index of the input the brace scan dereferenced, 0 when
\* no scan was run
NotFound == [found |-> FALSE, start |-> 0, span |-> <<>>, read |-> 0]

\* the scan ran and the span is not used
Dropped(sc) == [NotFound EXCEPT !.read = sc[3]]

\* the span of output that begins at index start and ends before index sc[1]
Found(output, start, sc) ==
    [found |-> TRUE, start |-> start, span |-> SubSeq(output, start, sc[1] - 1),
     read |-> sc[3]]

(***************************************************************************)
(* Extraction of the entry addressed to target from one envelope           *)
(***************************************************************************)
\* convert_round1_to_messages / convert_round2_to_messages /
\* convert_round_to_messages: strstr, strchr '{', do-while scan, balance check
ExtractConvert(output, target) ==
    LET target_pos == StrStr(output, TargetKey(target))
    IN  IF target_pos = 0 THEN NotFound
        ELSE LET msg_start == StrChr(output, target_pos, "{")
             IN  IF msg_start = 0 THEN NotFound
                 ELSE LET sc == DoWhileScan(output, msg_start, 0)
                      IN  IF sc[2] # 0 THEN Dropped(sc)
                          ELSE Found(output, msg_start, sc)

\* test_refresh steps 4 and 5: strlen > 2, strstr, '{' right after the key,
\* while scan from brace_count = 1, balance check
ExtractRefresh(msg_data, target) ==
    IF ~(Len(msg_data) > 2) THEN NotFound
    ELSE LET target_pos == StrStr(msg_data, TargetKey(target))
         IN  IF target_pos = 0 THEN NotFound
             ELSE LET target_msg == target_pos + Len(TargetKey(target))
                  IN  IF CharAt(msg_data, target_msg) # "{" THEN NotFound
                      ELSE LET sc == WhileScan(msg_data, target_msg + 1, 1)
                           IN  IF sc[2] # 0 THEN Dropped(sc)
                               ELSE Found(msg_data, target_msg, sc)

\* test_complete_ed25519 main: strstr and strchr failures jump to cleanup
\* (found = FALSE); the span the do-while scan stops at is used as it is
ExtractEd25519(data, target) ==
    LET target_pos == StrStr(data, TargetKey(target))
    IN  IF target_pos = 0 THEN NotFound
        ELSE LET msg_start == StrChr(data, target_pos, "{")
             IN  IF msg_start = 0 THEN NotFound
                 ELSE LET sc == DoWhileScan(data, msg_start, 0)
                      IN  Found(data, msg_start, sc)

(***************************************************************************)
(* The routers                                                             *)
(***************************************************************************)
EmptyBatch == [result |-> <<"[">>, message_count |-> 0, picked |-> <<>>]

\* if (message_count > 0) strcat(result, ","); strncat(result, span); message_count++
AppendSpan(acc, from_party, ex) ==
    [result        |-> acc.result
                       \o (IF acc.message_count > 0 THEN <<",">> ELSE <<>>) \o ex.span,
     message_count |-> acc.message_count + 1,
     picked        |-> Append(acc.picked,
                              [from |-> from_party, start |-> ex.start, span |-> ex.span])]

Close(acc) == [acc EXCEPT !.result = @ \o <<"]">>]

\* for (int i = 0; i < count; i++) of convert_round*_to_messages; i is 0-based
RECURSIVE ConvertLoop(_, _, _, _, _)
ConvertLoop(outputs, count, target, i, acc) ==
    IF ~(i < count) THEN acc
    ELSE LET from_party == i + 1
             ex == ExtractConvert(outputs[i + 1], target)
         IN  IF from_party = target \/ ~ex.found
             THEN ConvertLoop(outputs, count, target, i + 1, acc)
             ELSE ConvertLoop(outputs, count, target, i + 1,
                              AppendSpan(acc, from_party, ex))

\* the sender loop run from the last party down to the first
RECURSIVE ConvertLoopDown(_, _, _, _, _)
ConvertLoopDown(outputs, count, target, i, acc) ==
    IF i < 0 THEN acc
    ELSE LET from_party == i + 1
             ex == ExtractConvert(outputs[i + 1], target)
         IN  IF from_party = target \/ ~ex.found
             THEN ConvertLoopDown(outputs, count, target, i - 1, acc)
             ELSE ConvertLoopDown(outputs, count, target, i - 1,
                                  AppendSpan(acc, from_party, ex))

convert_round_to_messages_down(outputs, count, target) ==
    Close(ConvertLoopDown(outputs, count, target, count - 1, EmptyBatch))

\* the sender loop without the skip of the target's own envelope
RECURSIVE ConvertLoopSelf(_, _, _, _, _)
ConvertLoopSelf(outputs, count, target, i, acc) ==
    IF ~(i < count) THEN acc
    ELSE LET ex == ExtractConvert(outputs[i + 1], target)
         IN  IF ~ex.found
             THEN ConvertLoopSelf(outputs, count, target, i + 1, acc)
             ELSE ConvertLoopSelf(outputs, count, target, i + 1, AppendSpan(acc, i + 1, ex))

convert_round_to_messages_self(outputs, count, target) ==
    Close(ConvertLoopSelf(outputs, count, target, 0, EmptyBatch))

convert_round_to_messages(outputs, count, target) ==
    Close(ConvertLoop(outputs, count, target, 0, EmptyBatch))

\* for (int j = 0; j < TOTAL_PARTIES; j++) of test_refresh steps 4 and 5;
\* i and j are 0-based, the batch is for party i + 1
RECURSIVE RefreshLoop(_, _, _, _)
RefreshLoop(messages, i, j, acc) ==
    IF ~(j < TOTAL_PARTIES) THEN acc
    ELSE LET ex == ExtractRefresh(messages[j + 1], i + 1)
         IN  IF j = i \/ ~ex.found
             THEN RefreshLoop(messages, i, j + 1, acc)
             ELSE RefreshLoop(messages, i, j + 1, AppendSpan(acc, j + 1, ex))

refresh_aggregate(messages, i) == Close(RefreshLoop(messages, i, 0, EmptyBatch))

\* sprintf(formatted_input, "[%.*s]", msg_len, msg_start)
ed25519_format(sp) == <<"[">> \o sp \o <<"]">>

(***************************************************************************)
(* The router of test_new_ecdsa_functions.c (the "data" convention)        *)
(***************************************************************************)
\* the needle "\"data\":"
DataKey == <<Q, "d", "a", "t", "a", Q, ":">>

\* strstr(output, "\"data\":"), strchr '"' from there, one past it, strchr
\* '"' again: the span between the two quotes
ExtractData(output) ==
    LET at_key == StrStr(output, DataKey)
    IN  IF at_key = 0 THEN NotFound
        ELSE LET quote == StrChr(output, at_key, Q)
             IN  IF quote = 0 THEN NotFound
                 ELSE LET msg_start == quote + 1
                          msg_end == StrChr(output, msg_start, Q)
                      IN  IF msg_end = 0 THEN NotFound
                          ELSE [found |-> TRUE, start |-> msg_start,
                                span |-> SubSeq(output, msg_start, msg_end - 1),
                                read |-> msg_end]

\* if (message_count > 0) strcat(result, ","), before the sender's output is
\* looked at
CommaFirst(acc) ==
    [acc EXCEPT !.result = @ \o (IF acc.message_count > 0 THEN <<",">> ELSE <<>>)]

\* strncat(result, msg_start, msg_end - msg_start); message_count++
AppendData(acc, from_party, ex) ==
    [result        |-> acc.result \o ex.span,
     message_count |-> acc.message_count + 1,
     picked        |-> Append(acc.picked,
                              [from |-> from_party, start |-> ex.start, span |-> ex.span])]

\* for (int i = 0; i < total_parties; i++) of convert_round_to_messages in
\* test_new_ecdsa_functions.c; i is 0-based
RECURSIVE DataLoop(_, _, _, _, _)
DataLoop(outputs, total_parties, target, i, acc) ==
    IF ~(i < total_parties) THEN acc
    ELSE IF i = target - 1 THEN DataLoop(outputs, total_parties, target, i + 1, acc)
    ELSE LET ex == ExtractData(outputs[i + 1])
             sep == CommaFirst(acc)
         IN  DataLoop(outputs, total_parties, target, i + 1,
                      IF ex.found THEN AppendData(sep, i + 1, ex) ELSE sep)

convert_round_to_messages_data(outputs, total_parties, target) ==
    Close(DataLoop(outputs, total_parties, target, 0, EmptyBatch))

(***************************************************************************)
(* Router specification: the engine's round outputs are the inputs         *)
(***************************************************************************)
\* what may deviate from the plain, complete envelopes: an entry <<q, p>> of
\* an envelope (odd), or a whole envelope q (dmg)
EntrySlots == {<<q, p>> : q \in Parties, p \in Parties} \ {<<q, q>> : q \in Parties}

OddEntries == (Payloads \ {PlainPayload}) \cup {Absent}

\* an envelope cut short by t characters; MaxTrunc + 1 stands for a withheld (empty) one
Damages == 1..(MaxTrunc + 1)

SentOf(odd) ==
    [q \in Parties |-> [p \in Parties |->
        IF q = p THEN Absent
        ELSE IF <<q, p>> \in DOMAIN odd THEN odd[<<q, p>>] ELSE PlainPayload]]

OutputOf(env, q, dmg) ==
    IF q \in DOMAIN dmg
    THEN IF dmg[q] > MaxTrunc THEN <<>> ELSE Truncate(Encode(env), dmg[q])
    ELSE Encode(env)

RouterInit ==
    /\ \E S \in SUBSET EntrySlots, D \in SUBSET Parties :
          /\ Cardinality(S) + Cardinality(D) <= MaxOdd
          /\ \E odd \in [S -> OddEntries], dmg \in [D -> Damages] :
                /\ sent = SentOf(odd)
                /\ round_outputs = [q \in Parties |-> OutputOf(SentOf(odd)[q], q, dmg)]
    /\ target_party \in Parties
    /\ router = "none"
    /\ result = <<>>
    /\ message_count = 0
    /\ picked = <<>>
    /\ status = "none"
    /\ driver = "none"
    /\ sessions = <<>>
    /\ jni = <<>>
    /\ pc = 0
    /\ handles = [h \in {} |-> "null"]
    /\ buffers = [b \in {} |-> "null"]
    /\ contents = [b \in {} |-> <<>>]
    /\ calls = <<>>
    /\ ret = 0
    /\ exit_code = 0

\* a driver's round loop body: route with convert_round*_to_messages, then
\* hand the batch to go_keygen_round2/3 (the batch is never inspected)
ConvertRoute ==
    /\ router = "none"
    /\ LET b == convert_round_to_messages(round_outputs, TOTAL_PARTIES, target_party)
       IN  /\ result' = b.result
           /\ message_count' = b.message_count
           /\ picked' = b.picked
    /\ router' = "convert"
    /\ status' = "ok"
    /\ UNCHANGED <<sent, round_outputs, target_party, driverVars, bridgeVars>>

\* test_refresh steps 4 and 5: inline routing, then go_refresh_round2/3
RefreshRoute ==
    /\ router = "none"
    /\ LET b == refresh_aggregate(round_outputs, target_party - 1)
       IN  /\ result' = b.result
           /\ message_count' = b.message_count
           /\ picked' = b.picked
    /\ router' = "refresh"
    /\ status' = "ok"
    /\ UNCHANGED <<sent, round_outputs, target_party, driverVars, bridgeVars>>

\* test_complete_ed25519 rounds 2 and 3: signers 1 and 2, each takes the
\* entry addressed to it from the other signer's output
Ed25519Route ==
    /\ router = "none"
    /\ target_party \in {1, 2}
    /\ LET from_party == 3 - target_party
           ex == ExtractEd25519(round_outputs[from_party], target_party)
       IN  IF ex.found
           THEN /\ result' = ed25519_format(ex.span)
                /\ message_count' = 1
                /\ picked' = <<[from |-> from_party, start |-> ex.start, span |-> ex.span]>>
                /\ status' = "ok"
           ELSE /\ result' = <<>>
                /\ message_count' = 0
                /\ picked' = <<>>
                /\ status' = "abort"
    /\ router' = "ed25519"
    /\ UNCHANGED <<sent, round_outputs, target_party, driverVars, bridgeVars>>

RouterNext == ConvertRoute \/ RefreshRoute \/ Ed25519Route

SpecRouter == RouterInit /\ [][RouterNext]_vars

(***************************************************************************)
(* Router specification for the "data" convention: each party's round      *)
(* output carries its message as the string value of a "data" field        *)
(***************************************************************************)
\* the message texts
DataVals == {<<>>, <<"m">>, <<"m", "n">>}

\* {"data":"<v>"}
Wrapped(v) == <<"{">> \o DataKey \o <<Q>> \o v \o <<Q, "}">>

\* {"id":"7","data":"<v>"}
WrappedAfterId(v) ==
    <<"{", Q, "i", "d", Q, ":", Q, "7", Q, ",">> \o DataKey \o <<Q>> \o v \o <<Q, "}">>

\* outputs that carry no message: {}, {"id":"7"}, and a withheld output
Unwrapped == {<<"{", "}">>, <<"{", Q, "i", "d", Q, ":", Q, "7", Q, "}">>, <<>>}

\* what a party sends (has: a message, val: its text) with the outputs that
\* can carry it
DataSends ==
    UNION {{[has |-> TRUE, val |-> v, output |-> o] :
                o \in {Wrapped(v), WrappedAfterId(v)}} : v \in DataVals}
    \cup {[has |-> FALSE, val |-> <<>>, output |-> o] : o \in Unwrapped}

DataInit ==
    /\ sent \in [Parties -> DataSends]
    /\ round_outputs = [q \in Parties |-> sent[q].output]
    /\ target_party \in Parties
    /\ router = "none"
    /\ result = <<>>
    /\ message_count = 0
    /\ picked = <<>>
    /\ status = "none"
    /\ driver = "none"
    /\ sessions = <<>>
    /\ jni = <<>>
    /\ pc = 0
    /\ handles = [h \in {} |-> "null"]
    /\ buffers = [b \in {} |-> "null"]
    /\ contents = [b \in {} |-> <<>>]
    /\ calls = <<>>
    /\ ret = 0
    /\ exit_code = 0

\* test_new_ecdsa_functions main: the round loop body routes with
\* convert_round_to_messages, then hands the batch to go_keygen_round2/3
DataRoute ==
    /\ router = "none"
    /\ LET b == convert_round_to_messages_data(round_outputs, TOTAL_PARTIES, target_party)
       IN  /\ result' = b.result
           /\ message_count' = b.message_count
           /\ picked' = b.picked
    /\ router' = "data"
    /\ status' = "ok"
    /\ UNCHANGED <<sent, round_outputs, target_party, driverVars, bridgeVars>>

DataNext == DataRoute

SpecData == DataInit /\ [][DataNext]_vars

(***************************************************************************)
(* Buffer sizes of the routers: the same loops, followed by the number of  *)
(* bytes they allocate and the number of bytes they write.  Lengths are    *)
(* numbers here, so that outputs of any size the int type can record are   *)
(* covered.                                                                *)
(***************************************************************************)
\* int is 32 bits wide
INT_MAX == 2147483647

INT_MIN == (-INT_MAX) - 1

\* a + b does not fit in an int
AddOverflows(a, b) ==
    \/ a > 0 /\ b > 0 /\ a > INT_MAX - b
    \/ a < 0 /\ b < 0 /\ a < INT_MIN - b

\* a + b in int arithmetic, wrapped modulo 2^32 when it does not fit
AddWrap(a, b) ==
    IF a > 0 /\ b > 0 /\ a > INT_MAX - b
    THEN ((a - INT_MAX) - 1) + ((b - INT_MAX) - 1)
    ELSE IF a < 0 /\ b < 0 /\ a < INT_MIN - b
         THEN ((a + INT_MAX) + 1) + ((b + INT_MAX) + 1)
         ELSE a + b

\* int total_size = 1000
SizeSlack == 1000

\* malloc(20000)
AGGREGATED_SIZE == 20000

\* strlen(target_key) for a one-digit party: "<p>":
KeyLen == 4

\* total_size += round1_lens[i] * 2, for i = 0 .. count - 1; overflowed
\* records that one of the int operations did not fit
RECURSIVE total_size_loop(_, _, _, _)
total_size_loop(round_lens, count, i, acc) ==
    IF ~(i < count) THEN acc
    ELSE LET len   == round_lens[i + 1]
             twice == AddWrap(len, len)
         IN  total_size_loop(round_lens, count, i + 1,
                 [size       |-> AddWrap(acc.size, twice),
                  overflowed |-> \/ acc.overflowed
                                 \/ AddOverflows(len, len)
                                 \/ AddOverflows(acc.size, twice)])

total_size(round_lens, count) ==
    total_size_loop(round_lens, count, 0, [size |-> SizeSlack, overflowed |-> FALSE])

\* bytes malloc(n) hands out for an int n: a negative n converts to a size
\* no allocation can satisfy, and the NULL it returns is written through
\* unchecked
Capacity(n) == IF n > 0 THEN n ELSE 0

\* bytes the loop writes: "[" by strcpy, then for each other sender whose
\* output yields a payload a comma (unless first) and the payload, then "]"
\* and the terminating NUL
RECURSIVE WriteLoop(_, _, _, _, _)
WriteLoop(spans, count, target, i, acc) ==
    IF ~(i < count) THEN acc
    ELSE IF i = target - 1 \/ spans[i + 1] = 0
         THEN WriteLoop(spans, count, target, i + 1, acc)
         ELSE WriteLoop(spans, count, target, i + 1,
                  [bytes         |-> acc.bytes + spans[i + 1]
                                        + (IF acc.message_count > 0 THEN 1 ELSE 0),
                   message_count |-> acc.message_count + 1])

BytesWritten(spans, count, target) ==
    LET w == WriteLoop(spans, count, target, 0, [bytes |-> 1, message_count |-> 0])
    IN  [w EXCEPT !.bytes = @ + 2]

\* lengths of round outputs: none, a short one, one that fills the
\* aggregation buffer, and the shortest one whose double is no int
SmallLen == 40

MidLen == 20000

HugeLen == 1073741824

LenChoices == {0, SmallLen, MidLen, HugeLen}

\* lengths of the payload an output of length len can hold for one target:
\* none, the empty object, or everything after the key
SpanChoices(len) == {0} \cup (IF len >= KeyLen + 2 THEN {2, len - KeyLen} ELSE {})

\* what a signed overflow does in a build: wrap around, or trap
OverflowOutcomes == {"wrap", "trap"}

SizeInit ==
    /\ round_outputs \in [Parties -> LenChoices]
    /\ target_party \in Parties
    /\ sent \in [Parties -> UNION {SpanChoices(len) : len \in LenChoices}]
    /\ \A q \in Parties : sent[q] \in SpanChoices(round_outputs[q])
    /\ sent[target_party] = 0
    /\ router = "none"
    /\ result = [capacity |-> 0, needed |-> 0]
    /\ message_count = 0
    /\ picked = <<>>
    /\ status = "none"
    /\ driver = "none"
    /\ sessions = <<>>
    /\ jni = <<>>
    /\ pc = 0
    /\ handles = [h \in {} |-> "null"]
    /\ buffers = [b \in {} |-> "null"]
    /\ contents = [b \in {} |-> <<>>]
    /\ calls = <<>>
    /\ ret = 0
    /\ exit_code = 0

\* convert_round1_to_messages / convert_round2_to_messages of
\* test_complete_ecdsa and test_refresh: malloc(total_size), then the writes
SizeConvert ==
    /\ router = "none"
    /\ LET ts == total_size(round_outputs, TOTAL_PARTIES)
           w  == BytesWritten(sent, TOTAL_PARTIES, target_party)
       IN  \E outcome \in OverflowOutcomes :
             /\ outcome = "trap" => ts.overflowed
             /\ IF ts.overflowed /\ outcome = "trap"
                THEN /\ result' = [capacity |-> 0, needed |-> 0]
                     /\ message_count' = 0
                     /\ status' = "trapped"
                ELSE /\ result' = [capacity |-> Capacity(ts.size), needed |-> w.bytes]
                     /\ message_count' = w.message_count
                     /\ status' = IF w.bytes <= Capacity(ts.size) THEN "ok" ELSE "overrun"
    /\ router' = "convert_size"
    /\ UNCHANGED <<sent, round_outputs, target_party, picked, driverVars, bridgeVars>>

\* test_refresh main, steps 4 and 5: malloc(20000), then the writes; an
\* output of strlen <= 2 is skipped
SizeInline ==
    /\ router = "none"
    /\ LET spans == [q \in Parties |-> IF round_outputs[q] > 2 THEN sent[q] ELSE 0]
           w     == BytesWritten(spans, TOTAL_PARTIES, target_party)
       IN  /\ result' = [capacity |-> AGGREGATED_SIZE, needed |-> w.bytes]
           /\ message_count' = w.message_count
           /\ status' = IF w.bytes <= AGGREGATED_SIZE THEN "ok" ELSE "overrun"
    /\ router' = "inline_size"
    /\ UNCHANGED <<sent, round_outputs, target_party, picked, driverVars, bridgeVars>>

SizeNext == SizeConvert \/ SizeInline

SpecSize == SizeInit /\ [][SizeNext]_vars

(***************************************************************************)
(* Router properties                                                       *)
(***************************************************************************)
Others(p) == Parties \ {p}

Routed == router # "none"

\* the envelope of q is the encoding of what q sent, nothing cut off
Intact(q) == round_outputs[q] = Encode(sent[q])

\* every envelope holds one entry for every other party
AllComplete == \A q \in Parties : Intact(q) /\ \A p \in Others(q) : sent[q][p] # Absent

\* f[q] for q ascending, the empty ones left out, separated by commas
RECURSIVE JoinFrom(_, _)
JoinFrom(f, q) ==
    IF q > TOTAL_PARTIES THEN <<>>
    ELSE LET rest == JoinFrom(f, q + 1)
         IN  IF f[q] = <<>> THEN rest
             ELSE f[q] \o (IF rest = <<>> THEN <<>> ELSE <<",">> \o rest)

\* the batch of the payloads addressed to p, one per sender that has one
ExpectedBatch(p) ==
    <<"[">> \o JoinFrom([q \in Parties |-> IF q = p THEN <<>> ELSE sent[q][p]], 1) \o <<"]">>

Count(s, ch) == Cardinality({i \in 1..Len(s) : s[i] = ch})

BraceBalance(s) == Count(s, "{") - Count(s, "}")

\* C1: broadcast routing never hands the engine a partial batch: when the
\* entry addressed to the target is absent from another party's envelope, or
\* that envelope is withheld, the batch is not passed on (the run aborts).
C1_NoPartialBatch ==
    (/\ router \in {"convert", "refresh"}
     /\ \E q \in Others(target_party) :
            sent[q][target_party] = Absent \/ round_outputs[q] = <<>>)
    => status # "ok"

\* C2: when every envelope holds one well-formed entry for every other
\* party, the batch for the target holds exactly N-1 payloads: for each other
\* party, in turn, the payload it addressed to the target.
C2_Completeness ==
    (router \in {"convert", "refresh"} /\ AllComplete)
    => (message_count = TOTAL_PARTIES - 1 /\ result = ExpectedBatch(target_party))

\* index in Encode(env) at which the value of the top-level entry keyed p begins
RECURSIVE ValueStart(_, _)
ValueStart(env, p) ==
    IF p = 1 THEN 6
    ELSE ValueStart(env, p - 1)
         + (IF env[p - 1] = Absent THEN 0 ELSE Len(env[p - 1]) + 5)

\* the senders a router consults for the target
Consulted ==
    IF router = "ed25519" THEN {3 - target_party} ELSE Others(target_party)

PickedFrom(q) == {picked[i] : i \in {j \in DOMAIN picked : picked[j].from = q}}

\* C3: extraction is depth-aware: the span taken from an envelope for the
\* target begins at the value of the top-level entry keyed by the target,
\* never at key text inside a sibling entry's payload.
C3_DepthAware ==
    \A i \in DOMAIN picked :
        LET q == picked[i].from
        IN  (Intact(q) /\ sent[q][target_party] # Absent)
            => picked[i].start = ValueStart(sent[q], target_party)

\* C4: at every extraction site a span whose braces do not balance before
\* the end of the input is not used: no unbalanced span is in a batch that
\* is passed to the engine.
C4_UnbalancedNotUsed ==
    status = "ok" => \A i \in DOMAIN picked : BraceBalance(picked[i].span) = 0

\* the payloads of q carry no nested key that reads as a party key
PlainKeys(q) == \A p \in Parties : sent[q][p] \in {Absent} \cup {Obj("d", v) : v \in StrVals \cup {<<"{", "}">>}}

\* C5: round trip: extracting the entry for the target from an encoded
\* envelope returns exactly the payload stored for it, also when payloads
\* hold '{' or '}' inside string values.
C5_RoundTrip ==
    Routed =>
        \A q \in Consulted :
            (Intact(q) /\ PlainKeys(q) /\ sent[q][target_party] # Absent)
            => \E pk \in PickedFrom(q) : pk.span = sent[q][target_party]

RECURSIVE JoinSpans(_)
JoinSpans(pk) ==
    IF pk = <<>> THEN <<>>
    ELSE pk[1].span \o (IF Len(pk) = 1 THEN <<>> ELSE <<",">> \o JoinSpans(Tail(pk)))

\* C6: in the batch built for the target the extracted payloads stand in
\* ascending sender order, at most one per sender and none from the target
\* itself, whatever the envelopes hold.
C6_AscendingSenders ==
    /\ \A i, j \in DOMAIN picked : i < j => picked[i].from < picked[j].from
    /\ \A i \in DOMAIN picked : picked[i].from \in Others(target_party)
    /\ (Routed /\ status = "ok")
       => (Len(picked) = message_count
           /\ result = <<"[">> \o JoinSpans(picked) \o <<"]">>)

C6_Witness ==
    /\ router \in {"convert", "refresh"}
    /\ Len(picked) = 2
    /\ picked[1].span # picked[2].span
    /\ ~AllComplete

\* the target's own envelope holds text that reads as the target's key
OwnKeyText == StrStr(round_outputs[target_party], TargetKey(target_party)) # 0

\* C22: no self-messages: the batch built for party p holds no payload taken
\* from p's own envelope, whatever the envelopes hold.
C22_NoSelfMessages ==
    Routed => \A i \in DOMAIN picked : picked[i].from # target_party

C22_Witness ==
    /\ router = "convert"
    /\ OwnKeyText
    /\ ExtractConvert(round_outputs[target_party], target_party).found
    /\ message_count = TOTAL_PARTIES - 1

\* C28: the duplicated routers compute the same function: the batch the
\* inline routing of test_refresh builds for a target from a set of envelopes
\* is the batch convert_round_to_messages builds from them.
C28_SameBatch ==
    router = "refresh"
    => result = convert_round_to_messages(round_outputs, TOTAL_PARTIES, target_party).result

\* the extraction a router runs on one envelope
ExtractBy(r, s, t) ==
    CASE r = "refresh" -> ExtractRefresh(s, t)
      [] r = "ed25519" -> ExtractEd25519(s, t)
      [] OTHER -> ExtractConvert(s, t)

\* the ends e for which s[start..e] holds as many '}' as '{'
BalancedEnds(s, start) ==
    {e \in start..Len(s) : BraceBalance(SubSeq(s, start, e)) = 0}

\* no string value in an entry of q's envelope holds a brace
NoStringBraces(q) ==
    \A p \in Parties :
        sent[q][p] \in {Absent} \cup {Obj(k, v) : k \in FieldKeys, v \in {<<Q, Q>>, <<"{", "}">>}}

\* C29: for a value that starts with '{' and has no brace inside a string,
\* the span the brace scan selects is the shortest one beginning at that '{'
\* that holds as many '}' as '{': it ends with the matching closing brace. For
\* the value of the target's top-level entry that span is the stored payload.
C29_ShortestBalanced ==
    \A i \in DOMAIN picked :
        LET q == picked[i].from
            s == round_outputs[q]
            st == picked[i].start
        IN  /\ (NoStringBraces(q) /\ s[st] = "{" /\ BalancedEnds(s, st) # {})
               => picked[i].span = SubSeq(s, st, SetMin(BalancedEnds(s, st)))
            /\ (NoStringBraces(q) /\ Intact(q) /\ sent[q][target_party] # Absent
                   /\ st = ValueStart(sent[q], target_party))
               => picked[i].span = sent[q][target_party]

\* a span with a nested object was selected
C29_Witness ==
    \E i \in DOMAIN picked :
        /\ NoStringBraces(picked[i].from)
        /\ picked[i].span \in {Obj(k, <<"{", "}">>) : k \in FieldKeys}

\* C30: the brace scan ends, and it reads no position of its input beyond
\* the terminating NUL, whether the braces balance, do not balance, or the
\* closing brace is the last character of the string.
C30_ScanInBounds ==
    Routed =>
        \A q \in Consulted :
            LET ex == ExtractBy(router, round_outputs[q], target_party)
            IN  /\ ex.read <= Len(round_outputs[q]) + 1
                /\ ex.found => ex.start + Len(ex.span) <= Len(round_outputs[q]) + 1

\* a scan ran into the terminator, and another ended on the last character
C30_Witness ==
    /\ Routed
    /\ \E q \in Consulted :
           ExtractBy(router, round_outputs[q], target_party).read = Len(round_outputs[q]) + 1
    /\ \E q \in Consulted :
           LET ex == ExtractBy(router, round_outputs[q], target_party)
           IN  ex.found /\ ex.read = Len(round_outputs[q])

\* C23: Ed25519 signing is routed within the signer subset {1, 2}: the
\* batch built for a signer holds exactly one payload, which is the payload
\* the other signer addressed to it; nothing sent by party 3 or addressed to
\* party 3 is in it.
C23_SignerSubset ==
    (router = "ed25519" /\ status = "ok")
        => /\ target_party \in {1, 2}
           /\ message_count = 1 /\ Len(picked) = 1
           /\ picked[1].from = 3 - target_party
           /\ picked[1].span = sent[3 - target_party][target_party]
           /\ result = ed25519_format(sent[3 - target_party][target_party])

\* C31: the batch a router emits is a well-formed array: '[', the appended
\* payloads separated by exactly one comma each, ']', with no leading,
\* trailing or doubled comma, whichever senders yield no payload.
C31_WellFormedArray ==
    (Routed /\ status = "ok")
        => /\ Len(picked) = message_count
           /\ result = <<"[">> \o JoinSpans(picked) \o <<"]">>

\* C32: in the "data" convention the text appended for each other party is
\* the string value of that party's "data" field, and every other party
\* that sent a message has its text in the batch.
C32_DataValue ==
    router = "data"
        => /\ \A i \in DOMAIN picked :
                 /\ sent[picked[i].from].has
                 /\ picked[i].span = sent[picked[i].from].val
           /\ \A q \in Others(target_party) :
                 sent[q].has => \E i \in DOMAIN picked : picked[i].from = q

\* C33: convert_round1_to_messages / convert_round2_to_messages never write
\* more bytes into the result buffer than the 1000 + 2 * sum(round_lens)
\* bytes allocated for it, whatever the lengths of the round outputs.
C33_NoOverrun ==
    (router = "convert_size" /\ status # "trapped")
        => result.needed <= result.capacity

\* C34: the inline routing of refresh rounds 2 and 3 never writes more
\* bytes into the aggregation buffer than the 20000 allocated for it,
\* whatever the lengths of the round outputs.
C34_NoOverrun ==
    router = "inline_size" => result.needed <= AGGREGATED_SIZE

(***************************************************************************)
(* The drivers: the engine calls each main function makes, in order        *)
(***************************************************************************)
\* MPC_ERROR_INVALID_PARAM .. MPC_ERROR_TIMEOUT
ErrorCodes == {-1, -2, -3, -4, -5}

Handles == {"h1", "h2", "h3", "s1", "s2", "k1", "k2", "k3"}

\* handles[i] of a driver, and handles[i] of generate_real_keys
H == <<"h1", "h2", "h3">>

K == <<"k1", "k2", "k3">>

\* One step of a driver.
\*   op "call":    an engine call that returns a result code; kind is "init",
\*                 "round", "step" (calls on a session), "keygen" or "aux"
\*                 (calls that take no session); on a non-zero result the
\*                 driver does onfail: "return" (leave with FailReturn),
\*                 "cleanup" (goto cleanup) or "continue"; flag: the failure
\*                 branch calls mpc_get_error_string
\*   op "destroy": a destroy call on h; flag: guarded by if (handle)
\*   op "route":   the batch for party p is built; flag: the routing can jump
\*                 to cleanup (the inline Ed25519 extraction)
\*   op "local":   a local allocation that can fail (string_to_hex)
\*   op "free":    free(b) on the buffer b = <<name, h>>; flag: guarded by
\*                 if (b)
\*   op "print":   printf of the buffers ins
\*   op "return":  the function returns val
\* ins: the buffers the step reads (the outputs of earlier calls a call is
\* given, the round outputs a routing step scans); outs: the buffers the
\* step leaves allocated when it succeeds (a call's out-parameters, the
\* batch a routing step returns); frees: the buffers the failure branch of
\* a call frees before it leaves
Step(op, name, kind, h, onfail, flag, val) ==
    [op |-> op, name |-> name, kind |-> kind, h |-> h, onfail |-> onfail,
     flag |-> flag, val |-> val, ins |-> {}, outs |-> {}, frees |-> {}]

\* an output buffer: the variable (or array) name and the party's handle
Buf(name, h) == <<name, h>>

\* the same steps, with the buffers passed in and the buffers received
IO(steps, ins, outs) ==
    [i \in DOMAIN steps |-> [steps[i] EXCEPT !.ins = ins, !.outs = outs]]

\* the same steps, with the buffers the failure branch frees
Freeing(steps, bufs) == [i \in DOMAIN steps |-> [steps[i] EXCEPT !.frees = bufs]]

FreeIf(name, h) == <<Step("free", name, "free", h, "", TRUE, 0)>>

Free(name, h) == <<Step("free", name, "free", h, "", FALSE, 0)>>

Printf(bufs) == IO(<<Step("print", "printf", "print", "", "", FALSE, 0)>>, bufs, {})

Call(name, kind, h, onfail) == <<Step("call", name, kind, h, onfail, FALSE, 0)>>

CallReport(name, kind, h, onfail) == <<Step("call", name, kind, h, onfail, TRUE, 0)>>

DestroyIf(name, h) == <<Step("destroy", name, "destroy", h, "", TRUE, 0)>>

DestroyAlways(name, h) == <<Step("destroy", name, "destroy", h, "", FALSE, 0)>>

Route(name, h, canAbort) == <<Step("route", name, "route", h, "cleanup", canAbort, 0)>>

Local(name, onfail) == <<Step("local", name, "local", "", onfail, FALSE, 0)>>

Return(val) == <<Step("return", "return", "return", "", "", FALSE, val)>>

Each(F(_)) == F(1) \o F(2) \o F(3)

\* the party a handle belongs to
PartyOf(h) ==
    CASE h \in {"h1", "k1", "s1"} -> 1
      [] h \in {"h2", "k2", "s2"} -> 2
      [] h \in {"h3", "k3"} -> 3
      [] OTHER -> 0

\* the round outputs of all parties, which the router reads
Outputs(name, hs) == {Buf(name, hs[i]) : i \in 1..3}

\* the three-round DKG every driver starts with: init, round 1, then route
\* and round 2 per party, then route and round 3 per party
DkgInit(hs, onfail) == LET F(i) == Call("go_keygen_init", "init", hs[i], onfail) IN Each(F)

\* a failure branch of round 1 that only prints and goes on
DkgRound1_continue(hs, onfail) ==
    LET F(i) == IO(Call("go_keygen_round1", "round", hs[i], "continue"),
                   {}, {Buf("round1_outputs", hs[i])})
    IN  Each(F)

DkgRound1(hs, onfail) ==
    LET F(i) == IO(Call("go_keygen_round1", "round", hs[i], onfail),
                   {}, {Buf("round1_outputs", hs[i])})
    IN  Each(F)

\* a round loop body that frees the batch before the round call reads it
RoundWith_freed_first(router_name, batch, ins, name, h, onfail, outs) ==
    IO(Route(router_name, h, FALSE), ins, {Buf(batch, h)})
    \o Free(batch, h)
    \o IO(Call(name, "round", h, onfail), {Buf(batch, h)}, outs)

\* one iteration of a round loop: the batch is built, passed to the round
\* call and freed, in the failure branch too
RoundWith(router_name, batch, ins, name, h, onfail, outs) ==
    IO(Route(router_name, h, FALSE), ins, {Buf(batch, h)})
    \o Freeing(IO(Call(name, "round", h, onfail), {Buf(batch, h)}, outs),
               {Buf(batch, h)})
    \o Free(batch, h)

DkgRound2(hs, onfail) ==
    LET F(i) == RoundWith("convert_round_to_messages", "messages_for_party",
                          Outputs("round1_outputs", hs), "go_keygen_round2",
                          hs[i], onfail, {Buf("round2_outputs", hs[i])})
    IN  Each(F)

\* the round 3 loop stopping one party short
DkgRound3_short(hs, onfail) ==
    LET F(i) == RoundWith("convert_round_to_messages", "messages_for_party",
                          Outputs("round2_outputs", hs), "go_keygen_round3",
                          hs[i], onfail, {Buf("final_keys", hs[i])})
    IN  F(1) \o F(2)

DkgRound3(hs, onfail) ==
    LET F(i) == RoundWith("convert_round_to_messages", "messages_for_party",
                          Outputs("round2_outputs", hs), "go_keygen_round3",
                          hs[i], onfail, {Buf("final_keys", hs[i])})
    IN  Each(F)

\* a DKG in which each party goes through rounds 1 and 2 before the next
\* party has made its round 1
Dkg_pipelined(hs, onfail) ==
    DkgInit(hs, onfail)
    \o (LET F(i) == IO(Call("go_keygen_round1", "round", hs[i], onfail),
                       {}, {Buf("round1_outputs", hs[i])})
                    \o RoundWith("convert_round_to_messages", "messages_for_party",
                                 Outputs("round1_outputs", hs), "go_keygen_round2",
                                 hs[i], onfail, {Buf("round2_outputs", hs[i])})
        IN  Each(F))
    \o DkgRound3(hs, onfail)

Dkg(hs, onfail) ==
    DkgInit(hs, onfail) \o DkgRound1(hs, onfail) \o DkgRound2(hs, onfail)
    \o DkgRound3(hs, onfail)

\* debug_dkg_format.c main
debug_dkg_format ==
    DkgInit(H, "return") \o DkgRound1(H, "return")
    \o (LET F(i) == DestroyAlways("go_keygen_destroy", H[i]) IN Each(F))
    \o Return(0)

\* test_corrected_keygen.c test_corrected_keygen
test_corrected_keygen ==
    Dkg(H, "return")
    \o Printf(Outputs("final_keys", H))
    \o (LET F(i) == DestroyIf("go_keygen_destroy", H[i])
                    \o FreeIf("round1_outputs", H[i])
                    \o FreeIf("round2_outputs", H[i])
                    \o FreeIf("final_keys", H[i])
        IN  Each(F))
    \o Return(0)

\* the same steps, routed by the router named r
WithRouter(steps, r) ==
    [i \in DOMAIN steps |->
        IF steps[i].op = "route" THEN [steps[i] EXCEPT !.name = r] ELSE steps[i]]

\* test_new_ecdsa_functions.c main: the DKG is routed by the file's own
\* convert_round_to_messages
test_new_ecdsa_functions ==
    WithRouter(Dkg(H, "return"), "convert_round_to_messages_data")
    \o IO(Call("go_ecdsa_keygen_create_sign_data_p1", "aux", "", "continue"),
          {Buf("final_keys", "h1")}, {Buf("p1_sign_data", "")})
    \o IO(Call("go_ecdsa_keygen_create_sign_data_p2", "aux", "", "continue"),
          {Buf("final_keys", "h2")}, {Buf("p2_sign_data", "")})
    \o (LET F(i) == DestroyAlways("go_keygen_destroy", H[i]) IN Each(F))
    \o Return(0)

\* the five signing steps with P2's second step given P2's own first outputs
ecdsa_sign_steps_stale ==
    IO(CallReport("go_ecdsa_sign_step1", "step", "s1", "return"),
       {}, {Buf("p1_commit_data", "")})
    \o IO(CallReport("go_ecdsa_sign_p2_step1", "step", "s2", "return"),
          {Buf("p1_commit_data", "")},
          {Buf("p2_proof_data", ""), Buf("p2_r2_data", "")})
    \o IO(CallReport("go_ecdsa_sign_p1_step2", "step", "s1", "return"),
          {Buf("p2_proof_data", ""), Buf("p2_r2_data", "")},
          {Buf("p1_proof_data", ""), Buf("p1_cmtd_data", "")})
    \o IO(CallReport("go_ecdsa_sign_p2_step2", "step", "s2", "return"),
          {Buf("p2_proof_data", ""), Buf("p2_r2_data", "")},
          {Buf("p2_ek_data", ""), Buf("p2_affine_proof_data", "")})
    \o IO(CallReport("go_ecdsa_sign_p1_step3", "step", "s1", "return"),
          {Buf("p2_ek_data", ""), Buf("p2_affine_proof_data", "")},
          {Buf("signature_r", ""), Buf("signature_s", "")})

\* test_complete_ecdsa.c main: the five signing steps
ecdsa_sign_steps ==
    IO(CallReport("go_ecdsa_sign_step1", "step", "s1", "return"),
       {}, {Buf("p1_commit_data", "")})
    \o IO(CallReport("go_ecdsa_sign_p2_step1", "step", "s2", "return"),
          {Buf("p1_commit_data", "")},
          {Buf("p2_proof_data", ""), Buf("p2_r2_data", "")})
    \o IO(CallReport("go_ecdsa_sign_p1_step2", "step", "s1", "return"),
          {Buf("p2_proof_data", ""), Buf("p2_r2_data", "")},
          {Buf("p1_proof_data", ""), Buf("p1_cmtd_data", "")})
    \o IO(CallReport("go_ecdsa_sign_p2_step2", "step", "s2", "return"),
          {Buf("p1_cmtd_data", ""), Buf("p1_proof_data", "")},
          {Buf("p2_ek_data", ""), Buf("p2_affine_proof_data", "")})
    \o IO(CallReport("go_ecdsa_sign_p1_step3", "step", "s1", "return"),
          {Buf("p2_ek_data", ""), Buf("p2_affine_proof_data", "")},
          {Buf("signature_r", ""), Buf("signature_s", "")})

\* the signature pair go_ecdsa_sign_p1_step3 returns
Signature == {Buf("signature_r", ""), Buf("signature_s", "")}

\* test_complete_ecdsa.c main
test_complete_ecdsa ==
    Dkg(H, "return")
    \o IO(CallReport("go_ecdsa_keygen_generate_p2_params", "keygen", "", "return"),
          {}, {Buf("p2_params", "")})
    \o IO(CallReport("go_ecdsa_keygen_p1", "keygen", "", "return"),
          {Buf("final_keys", "h1"), Buf("p2_params", "")},
          {Buf("p1_sign_data", ""), Buf("p1_message", "")})
    \o IO(CallReport("go_ecdsa_keygen_p2", "keygen", "", "return"),
          {Buf("final_keys", "h2"), Buf("p1_message", ""), Buf("p2_params", "")},
          {Buf("p2_sign_data", "")})
    \o IO(Local("string_to_hex", "return"), {}, {Buf("hex_message", "")})
    \o Printf({Buf("hex_message", "")})
    \o Freeing(IO(CallReport("go_ecdsa_sign_init_p1_complex", "init", "s1", "return"),
                  {Buf("p1_sign_data", ""), Buf("hex_message", "")}, {}),
               {Buf("hex_message", "")})
    \o Freeing(IO(CallReport("go_ecdsa_sign_init_p2_complex", "init", "s2", "return"),
                  {Buf("p2_sign_data", ""), Buf("hex_message", "")}, {}),
               {Buf("hex_message", "")})
    \o ecdsa_sign_steps
    \o Printf(Signature)
    \o Free("hex_message", "")
    \o (LET F(i) == DestroyIf("go_keygen_destroy", H[i]) IN Each(F))
    \o DestroyIf("go_ecdsa_sign_destroy", "s1")
    \o DestroyIf("go_ecdsa_sign_destroy", "s2")
    \o FreeIf("p1_sign_data", "") \o FreeIf("p1_message", "")
    \o FreeIf("p2_sign_data", "") \o FreeIf("p1_commit_data", "")
    \o FreeIf("p2_proof_data", "") \o FreeIf("p2_r2_data", "")
    \o FreeIf("p1_proof_data", "") \o FreeIf("p1_cmtd_data", "")
    \o FreeIf("p2_ek_data", "") \o FreeIf("p2_affine_proof_data", "")
    \o FreeIf("signature_r", "") \o FreeIf("signature_s", "")
    \o Return(0)

\* test_complete_ed25519.c main: the cleanup block
test_complete_ed25519_cleanup ==
    (LET F(i) == DestroyIf("go_keygen_destroy", H[i]) IN Each(F))
    \o DestroyIf("go_ed25519_sign_destroy", "s1")
    \o DestroyIf("go_ed25519_sign_destroy", "s2")
    \o FreeIf("hex_message", "")
    \o Return(0)

\* the signers' round outputs, which the inline extraction reads
SignOutputs(name) == {Buf(name, "s1"), Buf(name, "s2")}

\* a signer's round 2 or 3: the entry addressed to it is cut out of the other
\* signer's output and formatted, passed to the round call and freed before
\* the result is tested
SignRound(data, input, name, h, outs) ==
    IO(Route("extract", h, TRUE), SignOutputs(data), {Buf(input, h)})
    \o Freeing(IO(Call(name, "round", h, "cleanup"), {Buf(input, h)}, outs),
               {Buf(input, h)})
    \o Free(input, h)

\* test_complete_ed25519.c main
test_complete_ed25519 ==
    DkgInit(H, "cleanup") \o DkgRound1(H, "cleanup")
    \o (LET F(i) == IO(Route("convert_round1_to_messages", H[i], FALSE),
                       Outputs("round1_outputs", H), {Buf("dkg_input", H[i])})
        IN  Each(F))
    \o (LET F(i) == IO(Call("go_keygen_round2", "round", H[i], "cleanup"),
                       {Buf("dkg_input", H[i])}, {Buf("round2_outputs", H[i])})
        IN  Each(F))
    \o (LET F(i) == Free("dkg_input", H[i]) IN Each(F))
    \o (LET F(i) == IO(Route("convert_round1_to_messages", H[i], FALSE),
                       Outputs("round2_outputs", H), {Buf("dkg_input3", H[i])})
        IN  Each(F))
    \o (LET F(i) == IO(Call("go_keygen_round3", "round", H[i], "cleanup"),
                       {Buf("dkg_input3", H[i])}, {Buf("final_keys", H[i])})
        IN  Each(F))
    \o (LET F(i) == Free("dkg_input3", H[i]) IN Each(F))
    \o IO(Local("string_to_hex", "cleanup"), {}, {Buf("hex_message", "")})
    \o Printf({Buf("hex_message", "")})
    \o IO(Call("go_ed25519_sign_init", "init", "s1", "cleanup"),
          {Buf("final_keys", "h1"), Buf("hex_message", "")}, {})
    \o IO(Call("go_ed25519_sign_init", "init", "s2", "cleanup"),
          {Buf("final_keys", "h2"), Buf("hex_message", "")}, {})
    \o IO(Call("go_ed25519_sign_round1", "round", "s1", "cleanup"), {}, {Buf("round1_data", "s1")})
    \o IO(Call("go_ed25519_sign_round1", "round", "s2", "cleanup"), {}, {Buf("round1_data", "s2")})
    \o SignRound("round1_data", "formatted_input", "go_ed25519_sign_round2", "s1",
                 {Buf("round2_data", "s1")})
    \o SignRound("round1_data", "formatted_input", "go_ed25519_sign_round2", "s2",
                 {Buf("round2_data", "s2")})
    \o SignRound("round2_data", "formatted_input_r3", "go_ed25519_sign_round3", "s1",
                 {Buf("sig_r", "s1"), Buf("sig_s", "s1")})
    \o SignRound("round2_data", "formatted_input_r3", "go_ed25519_sign_round3", "s2",
                 {Buf("sig_r", "s2"), Buf("sig_s", "s2")})
    \o Printf({Buf("sig_r", "s1"), Buf("sig_s", "s1"), Buf("sig_r", "s2"), Buf("sig_s", "s2")})
    \o test_complete_ed25519_cleanup

\* a cleanup block that also destroys the keygen sessions of generate_real_keys
test_refresh_cleanup_keys ==
    (LET F(i) == DestroyIf("go_keygen_destroy", K[i]) IN Each(F))
    \o (LET F(i) == DestroyIf("go_refresh_destroy", H[i]) IN Each(F))
    \o (LET F(i) == FreeIf("final_keys", K[i])
                    \o FreeIf("round1_outputs", H[i])
                    \o FreeIf("round2_outputs", H[i])
                    \o FreeIf("final_keys", H[i])
        IN  Each(F))
    \o Return(0)

\* test_refresh.c test_refresh: the cleanup block
test_refresh_cleanup ==
    (LET F(i) == DestroyIf("go_refresh_destroy", H[i]) IN Each(F))
    \o (LET F(i) == FreeIf("final_keys", K[i])
                    \o FreeIf("round1_outputs", H[i])
                    \o FreeIf("round2_outputs", H[i])
                    \o FreeIf("final_keys", H[i])
        IN  Each(F))
    \o Return(0)

\* test_refresh.c: generate_real_keys (its return -1 makes test_refresh goto
\* cleanup), then test_refresh
test_refresh ==
    Dkg(K, "cleanup")
    \o (LET F(i) == DestroyIf("go_keygen_destroy", K[i])
                    \o FreeIf("round1_outputs", K[i])
                    \o FreeIf("round2_outputs", K[i])
        IN  Each(F))
    \o (LET F(i) == IO(CallReport("go_refresh_init", "init", H[i], "cleanup"),
                       {Buf("final_keys", K[i])}, {})
        IN  Each(F))
    \o (LET F(i) == IO(Call("go_refresh_round1", "round", H[i], "cleanup"),
                       {}, {Buf("round1_outputs", H[i])})
        IN  Each(F))
    \o (LET F(i) == RoundWith("aggregate", "aggregated_messages",
                              Outputs("round1_outputs", H), "go_refresh_round2",
                              H[i], "cleanup", {Buf("round2_outputs", H[i])})
        IN  Each(F))
    \o (LET F(i) == RoundWith("aggregate", "aggregated_messages",
                              Outputs("round2_outputs", H), "go_refresh_round3",
                              H[i], "cleanup", {Buf("final_keys", H[i])})
        IN  Each(F))
    \o Printf(Outputs("final_keys", H))
    \o test_refresh_cleanup

Drivers == {"debug_dkg_format", "test_corrected_keygen", "test_new_ecdsa_functions",
            "test_complete_ecdsa", "test_complete_ed25519", "test_refresh"}

Program(d) ==
    CASE d = "debug_dkg_format" -> debug_dkg_format
      [] d = "test_corrected_keygen" -> test_corrected_keygen
      [] d = "test_new_ecdsa_functions" -> test_new_ecdsa_functions
      [] d = "test_complete_ecdsa" -> test_complete_ecdsa
      [] d = "test_complete_ed25519" -> test_complete_ed25519
      [] d = "test_refresh" -> test_refresh

\* index of the first step of the cleanup block (cleanup: label)
CleanupAt(d) ==
    CASE d = "test_complete_ed25519" ->
            Len(test_complete_ed25519) - Len(test_complete_ed25519_cleanup) + 1
      [] d = "test_refresh" -> Len(test_refresh) - Len(test_refresh_cleanup) + 1
      [] OTHER -> 0

\* what the function returns from a failure branch
FailReturn(d) ==
    CASE d = "test_corrected_keygen" -> -1
      [] OTHER -> 1

\* the process exit status main makes of the function's return value
ExitStatus(d, r) ==
    CASE d \in {"test_corrected_keygen", "test_refresh"} -> IF r = 0 THEN 0 ELSE 1
      [] OTHER -> r

(***************************************************************************)
(* Driver specification                                                    *)
(***************************************************************************)
\* every buffer a driver receives from libmpc or allocates itself
Buffers ==
    UNION {UNION {Program(d)[i].outs : i \in DOMAIN Program(d)} : d \in Drivers}
    \cup UNION {{Buf(Program(d)[i].name, Program(d)[i].h) :
                    i \in {j \in DOMAIN Program(d) : Program(d)[j].op = "free"}} :
                d \in Drivers}

\* the buffers that hold a round's envelope (the others hold opaque data)
EnvelopeNames == {"round1_outputs", "round2_outputs", "round1_data", "round2_data"}

\* the parties of the protocol instance a handle belongs to: the two signers
\* of the Ed25519 signing, the three parties otherwise
ActiveSet(h) == IF h \in {"s1", "s2"} THEN {1, 2} ELSE Parties

\* the envelope the engine of h's party writes when it has no payload for
\* the parties in missing
EngineEnvelope(h, missing) ==
    Encode([p \in Parties |->
               IF p \in (ActiveSet(h) \ ({PartyOf(h)} \cup missing))
               THEN PlainPayload ELSE Absent])

\* the envelopes received so far that lack an entry
Incomplete(conts) ==
    {b \in Buffers : /\ b[1] \in EnvelopeNames
                     /\ conts[b] # <<>>
                     /\ conts[b] # EngineEnvelope(b[2], {})}

\* what a successful call can write to its out-parameters
EngineOutput(st, conts) ==
    LET miss == {{}} \cup (IF Cardinality(Incomplete(conts)) < MaxIncomplete
                           THEN {{p} : p \in ActiveSet(st.h) \ {PartyOf(st.h)}}
                           ELSE {})
    IN  {[b \in st.outs |-> IF b[1] \in EnvelopeNames
                            THEN EngineEnvelope(st.h, m) ELSE <<"*">>] : m \in miss}

\* the round outputs a routing step reads, by party
RouteInputs(st, conts) ==
    [q \in Parties |->
        IF \E b \in st.ins : PartyOf(b[2]) = q
        THEN conts[CHOOSE b \in st.ins : PartyOf(b[2]) = q]
        ELSE <<>>]

\* the batch a routing step builds from the round outputs outs for party p
BatchOf(name, outs, p) ==
    CASE name = "aggregate" -> refresh_aggregate(outs, p - 1) @@ [found |-> TRUE]
      [] name = "extract" ->
             LET ex == ExtractEd25519(outs[3 - p], p)
             IN  [result |-> IF ex.found THEN ed25519_format(ex.span) ELSE <<>>,
                  message_count |-> IF ex.found THEN 1 ELSE 0,
                  picked |-> IF ex.found
                             THEN <<[from |-> 3 - p, start |-> ex.start, span |-> ex.span]>>
                             ELSE <<>>,
                  found |-> ex.found]
      [] name = "convert_round_to_messages_data" ->
             convert_round_to_messages_data(outs, TOTAL_PARTIES, p) @@ [found |-> TRUE]
      [] OTHER -> convert_round_to_messages(outs, TOTAL_PARTIES, p) @@ [found |-> TRUE]

\* the batch a routing step builds for the party of st.h
RouteBatch(st, conts) ==
    CHOOSE b \in {BatchOf(st.name, outs, PartyOf(st.h)) : outs \in {RouteInputs(st, conts)}} :
        TRUE

\* the pointers whose initialization a goto cleanup jumps over
Uninit(d) == IF d = "test_complete_ed25519" THEN {Buf("hex_message", "")} ELSE {}

DriverInit ==
    /\ driver \in Drivers
    /\ sessions = <<>>
    /\ jni = <<>>
    /\ pc = 1
    /\ handles = [h \in Handles |-> "null"]
    /\ buffers = [b \in Buffers |-> IF b \in Uninit(driver) THEN "uninit" ELSE "null"]
    /\ contents = [b \in Buffers |-> <<>>]
    /\ calls = <<>>
    /\ ret = 0
    /\ exit_code = 0
    /\ sent = <<>>
    /\ round_outputs = <<>>
    /\ target_party = 0
    /\ router = "none"
    /\ result = <<>>
    /\ message_count = 0
    /\ picked = <<>>
    /\ status = "none"

Running == driver # "none" /\ pc >= 1

Exited == driver # "none" /\ pc = 0

Cur == Program(driver)[pc]

\* a call as made: its result code, the buffers passed and received, and the
\* number of payloads in the batch last built
Logged(st, rc) ==
    [name |-> st.name, kind |-> st.kind, h |-> st.h, rc |-> rc,
     ins |-> st.ins, outs |-> IF rc = 0 THEN st.outs ELSE {}, batch |-> message_count]

ErrStr ==
    [name |-> "mpc_get_error_string", kind |-> "errstr", h |-> "", rc |-> 0,
     ins |-> {}, outs |-> {}, batch |-> 0]

\* the function returns val: main turns it into the exit status
Leave(val) ==
    /\ ret' = val
    /\ exit_code' = ExitStatus(driver, val)
    /\ pc' = 0

\* what a failure branch does next
OnFail(onfail) ==
    CASE onfail = "return" -> Leave(FailReturn(driver))
      [] onfail = "cleanup" -> pc' = CleanupAt(driver) /\ UNCHANGED <<ret, exit_code>>
      [] onfail = "continue" -> pc' = pc + 1 /\ UNCHANGED <<ret, exit_code>>

\* an engine call returns 0; an init call has stored the new handle, and the
\* out-parameters hold the buffers the engine hands over
CallOk ==
    /\ Running /\ Cur.op = "call"
    /\ calls' = Append(calls, Logged(Cur, 0))
    /\ handles' = IF Cur.kind = "init" THEN [handles EXCEPT ![Cur.h] = "live"] ELSE handles
    /\ buffers' = [b \in Buffers |-> IF b \in Cur.outs THEN "owned" ELSE buffers[b]]
    /\ \E out \in EngineOutput(Cur, contents) :
          contents' = [b \in Buffers |-> IF b \in Cur.outs THEN out[b] ELSE contents[b]]
    /\ pc' = pc + 1
    /\ UNCHANGED <<bridgeVars, driver, ret, exit_code, routerVars>>

\* an engine call returns a non-zero result: the failure branch runs, and
\* frees what it frees
CallFail ==
    /\ Running /\ Cur.op = "call"
    /\ \E rc \in ErrorCodes :
          calls' = Append(calls, Logged(Cur, rc)) \o (IF Cur.flag THEN <<ErrStr>> ELSE <<>>)
    /\ buffers' = [b \in Buffers |-> IF b \in Cur.frees THEN "freed" ELSE buffers[b]]
    /\ OnFail(Cur.onfail)
    /\ UNCHANGED <<bridgeVars, driver, handles, contents, routerVars>>

\* string_to_hex returns a buffer
LocalOk ==
    /\ Running /\ Cur.op = "local"
    /\ buffers' = [b \in Buffers |-> IF b \in Cur.outs THEN "owned" ELSE buffers[b]]
    /\ contents' = [b \in Buffers |-> IF b \in Cur.outs THEN <<"*">> ELSE contents[b]]
    /\ pc' = pc + 1
    /\ UNCHANGED <<bridgeVars, driver, handles, calls, ret, exit_code, routerVars>>

\* string_to_hex returns NULL
LocalFail ==
    /\ Running /\ Cur.op = "local"
    /\ buffers' = [b \in Buffers |-> IF b \in Cur.outs THEN "null" ELSE buffers[b]]
    /\ OnFail(Cur.onfail)
    /\ UNCHANGED <<bridgeVars, driver, handles, contents, calls, routerVars>>

\* a routing step that cuts the payloads out of the round outputs in place
\* and leaves the envelopes empty
RouteOk_consuming ==
    /\ Running /\ Cur.op = "route"
    /\ LET b == RouteBatch(Cur, contents)
       IN  /\ b.found
           /\ result' = b.result
           /\ message_count' = b.message_count
           /\ picked' = b.picked
    /\ round_outputs' = RouteInputs(Cur, contents)
    /\ target_party' = PartyOf(Cur.h)
    /\ router' = Cur.name
    /\ status' = "ok"
    /\ buffers' = [b \in Buffers |-> IF b \in Cur.outs THEN "owned" ELSE buffers[b]]
    /\ contents' = [b \in Buffers |->
                       IF b \in Cur.outs THEN RouteBatch(Cur, contents).result
                       ELSE IF b \in Cur.ins THEN <<>> ELSE contents[b]]
    /\ pc' = pc + 1
    /\ UNCHANGED <<bridgeVars, sent, driver, handles, calls, ret, exit_code>>

\* the batch for the next call is built from the round outputs, in a
\* buffer of its own
RouteOk ==
    /\ Running /\ Cur.op = "route"
    /\ LET b == RouteBatch(Cur, contents)
       IN  /\ b.found
           /\ result' = b.result
           /\ message_count' = b.message_count
           /\ picked' = b.picked
    /\ round_outputs' = RouteInputs(Cur, contents)
    /\ target_party' = PartyOf(Cur.h)
    /\ router' = Cur.name
    /\ status' = "ok"
    /\ buffers' = [b \in Buffers |-> IF b \in Cur.outs THEN "owned" ELSE buffers[b]]
    /\ contents' = [b \in Buffers |-> IF b \in Cur.outs
                                       THEN RouteBatch(Cur, contents).result
                                       ELSE contents[b]]
    /\ pc' = pc + 1
    /\ UNCHANGED <<bridgeVars, sent, driver, handles, calls, ret, exit_code>>

\* the inline extraction finds no entry: goto cleanup
RouteAbort ==
    /\ Running /\ Cur.op = "route" /\ Cur.flag
    /\ ~RouteBatch(Cur, contents).found
    /\ round_outputs' = RouteInputs(Cur, contents)
    /\ target_party' = PartyOf(Cur.h)
    /\ router' = Cur.name
    /\ status' = "abort"
    /\ result' = <<>>
    /\ message_count' = 0
    /\ picked' = <<>>
    /\ OnFail(Cur.onfail)
    /\ UNCHANGED <<bridgeVars, sent, driver, handles, buffers, contents, calls>>

\* if (handle) is false: the destroy call is skipped
DestroySkip ==
    /\ Running /\ Cur.op = "destroy"
    /\ Cur.flag /\ handles[Cur.h] = "null"
    /\ pc' = pc + 1
    /\ UNCHANGED <<bridgeVars, driver, handles, buffers, contents, calls, ret, exit_code, routerVars>>

DestroyCall ==
    /\ Running /\ Cur.op = "destroy"
    /\ ~(Cur.flag /\ handles[Cur.h] = "null")
    /\ calls' = Append(calls, Logged(Cur, 0))
    /\ handles' = [handles EXCEPT ![Cur.h] = IF @ = "null" THEN "null" ELSE "destroyed"]
    /\ pc' = pc + 1
    /\ UNCHANGED <<bridgeVars, driver, buffers, contents, ret, exit_code, routerVars>>

\* if (b) is false: the pointer is still NULL (or an uninitialized pointer
\* happens to read as NULL), free is skipped
FreeSkip ==
    /\ Running /\ Cur.op = "free"
    /\ buffers[Buf(Cur.name, Cur.h)] \in {"null", "uninit"}
    /\ pc' = pc + 1
    /\ UNCHANGED <<bridgeVars, driver, handles, buffers, contents, calls, ret, exit_code, routerVars>>

\* if (b) free(b)
FreeCall ==
    /\ Running /\ Cur.op = "free"
    /\ buffers[Buf(Cur.name, Cur.h)] \notin {"null", "uninit"}
    /\ buffers' = [buffers EXCEPT ![Buf(Cur.name, Cur.h)] = "freed"]
    /\ pc' = pc + 1
    /\ UNCHANGED <<bridgeVars, driver, handles, contents, calls, ret, exit_code, routerVars>>

\* if (b) free(b) on an uninitialized pointer that reads as non-NULL: free is
\* called on an indeterminate address
FreeWild ==
    /\ Running /\ Cur.op = "free"
    /\ buffers[Buf(Cur.name, Cur.h)] = "uninit"
    /\ buffers' = [buffers EXCEPT ![Buf(Cur.name, Cur.h)] = "wild"]
    /\ pc' = pc + 1
    /\ UNCHANGED <<bridgeVars, driver, handles, contents, calls, ret, exit_code, routerVars>>

\* printf of buffers
PrintfStep ==
    /\ Running /\ Cur.op = "print"
    /\ pc' = pc + 1
    /\ UNCHANGED <<bridgeVars, driver, handles, buffers, contents, calls, ret, exit_code, routerVars>>

ReturnStep ==
    /\ Running /\ Cur.op = "return"
    /\ Leave(Cur.val)
    /\ UNCHANGED <<bridgeVars, driver, handles, buffers, contents, calls, routerVars>>

DriverNext ==
    \/ CallOk \/ CallFail \/ LocalOk \/ LocalFail \/ RouteOk \/ RouteAbort
    \/ DestroySkip \/ DestroyCall \/ FreeSkip \/ FreeCall \/ FreeWild \/ PrintfStep
    \/ ReturnStep

SpecDriver == DriverInit /\ [][DriverNext]_vars

(***************************************************************************)
(* The language bridge: the native entry points of mpc_jni.c               *)
(***************************************************************************)
MaxHandles == 1

JniHandles == 1..MaxHandles

\* the jlong a managed caller can pass: 0 is what a failed init returns
HandleArgs == 0..MaxHandles

\* an input array reference: null, a zero-length array, an array with bytes
Inputs == {"null", "empty", "data"}

\* One native entry point: the libmpc function it calls, the session families
\* it serves, its place in the family's round order, its input arrays and
\* out-buffers, and its coding style:
\*   "checked":  returns 0/NULL on a non-zero result or a NULL out-pointer,
\*               releases with mpc_string_free
\*   "throwing": throws RuntimeException on a non-zero result, copies the
\*               out-buffers unchecked, releases with if (p) free(p)
\*   "forward":  destroy hands the handle to libmpc
\*   "guarded":  destroy hands the handle to libmpc unless it is 0
Entry(fn, go, kind, fams, round, ins, outs, style) ==
    [fn |-> fn, go |-> go, kind |-> kind, fams |-> fams, round |-> round,
     ins |-> ins, outs |-> outs, style |-> style]

keygenInit == Entry("keygenInit", "go_keygen_init", "init", {"keygen"}, 0, 0, 0, "checked")
keygenRound1 == Entry("keygenRound1", "go_keygen_round1", "round", {"keygen"}, 1, 0, 1, "checked")
keygenRound2 == Entry("keygenRound2", "go_keygen_round2", "round", {"keygen"}, 2, 1, 1, "checked")
keygenRound3 == Entry("keygenRound3", "go_keygen_round3", "round", {"keygen"}, 3, 1, 1, "checked")
keygenDestroy == Entry("keygenDestroy", "go_keygen_destroy", "destroy", {"keygen"}, 0, 0, 0, "forward")

refreshInit == Entry("refreshInit", "go_refresh_init", "init", {"refresh"}, 0, 2, 0, "checked")
refreshRound1 == Entry("refreshRound1", "go_refresh_round1", "round", {"refresh"}, 1, 0, 1, "checked")
refreshRound2 == Entry("refreshRound2", "go_refresh_round2", "round", {"refresh"}, 2, 1, 1, "checked")
refreshRound3 == Entry("refreshRound3", "go_refresh_round3", "round", {"refresh"}, 3, 1, 1, "checked")
refreshDestroy == Entry("refreshDestroy", "go_refresh_destroy", "destroy", {"refresh"}, 0, 0, 0, "forward")

ed25519SignInit == Entry("ed25519SignInit", "go_ed25519_sign_init", "init", {"ed25519"}, 0, 3, 0, "checked")
ed25519SignRound1 == Entry("ed25519SignRound1", "go_ed25519_sign_round1", "round", {"ed25519"}, 1, 0, 1, "checked")
ed25519SignRound2 == Entry("ed25519SignRound2", "go_ed25519_sign_round2", "round", {"ed25519"}, 2, 1, 1, "checked")
ed25519SignRound3 == Entry("ed25519SignRound3", "go_ed25519_sign_round3", "round", {"ed25519"}, 3, 1, 2, "checked")
ed25519SignDestroy == Entry("ed25519SignDestroy", "go_ed25519_sign_destroy", "destroy", {"ed25519"}, 0, 0, 0, "forward")

ecdsaKeygenGenerateP2Params == Entry("ecdsaKeygenGenerateP2Params", "go_ecdsa_keygen_generate_p2_params", "call", {}, 0, 0, 1, "throwing")
ecdsaKeygenP1 == Entry("ecdsaKeygenP1", "go_ecdsa_keygen_p1", "call", {}, 0, 2, 2, "throwing")
ecdsaKeygenP2 == Entry("ecdsaKeygenP2", "go_ecdsa_keygen_p2", "call", {}, 0, 3, 1, "throwing")

ecdsaSignInitP1Complex == Entry("ecdsaSignInitP1Complex", "go_ecdsa_sign_init_p1_complex", "init", {"ecdsa_p1"}, 0, 2, 0, "throwing")
ecdsaSignInitP2Complex == Entry("ecdsaSignInitP2Complex", "go_ecdsa_sign_init_p2_complex", "init", {"ecdsa_p2"}, 0, 2, 0, "throwing")
ecdsaSignStep1 == Entry("ecdsaSignStep1", "go_ecdsa_sign_step1", "round", {"ecdsa_p1"}, 1, 0, 1, "throwing")
ecdsaSignP2Step1 == Entry("ecdsaSignP2Step1", "go_ecdsa_sign_p2_step1", "round", {"ecdsa_p2"}, 1, 1, 2, "throwing")
ecdsaSignP1Step2 == Entry("ecdsaSignP1Step2", "go_ecdsa_sign_p1_step2", "round", {"ecdsa_p1"}, 2, 2, 2, "throwing")
ecdsaSignP2Step2 == Entry("ecdsaSignP2Step2", "go_ecdsa_sign_p2_step2", "round", {"ecdsa_p2"}, 2, 2, 2, "throwing")
ecdsaSignP1Step3 == Entry("ecdsaSignP1Step3", "go_ecdsa_sign_p1_step3", "round", {"ecdsa_p1"}, 3, 2, 2, "throwing")
ecdsaSignDestroy == Entry("ecdsaSignDestroy", "go_ecdsa_sign_destroy", "destroy", {"ecdsa_p1", "ecdsa_p2"}, 0, 0, 0, "guarded")

Entries ==
    {keygenInit, keygenRound1, keygenRound2, keygenRound3, keygenDestroy,
     refreshInit, refreshRound1, refreshRound2, refreshRound3, refreshDestroy,
     ed25519SignInit, ed25519SignRound1, ed25519SignRound2, ed25519SignRound3,
     ed25519SignDestroy,
     ecdsaKeygenGenerateP2Params, ecdsaKeygenP1, ecdsaKeygenP2,
     ecdsaSignInitP1Complex, ecdsaSignInitP2Complex, ecdsaSignStep1,
     ecdsaSignP2Step1, ecdsaSignP1Step2, ecdsaSignP2Step2, ecdsaSignP1Step3,
     ecdsaSignDestroy}

EntriesOf(kind) == {e \in Entries : e.kind = kind}

InputsOf(e) == IF e.ins = 0 THEN {"none"} ELSE Inputs

\* the non-zero results the engine is let return to the bridge: the bridge
\* tells zero from non-zero and prints the number
EngineErrors == {-1}

\* the names of the result codes libmpc defines
ErrorKind(rc) ==
    CASE rc = 0 -> "none"
      [] rc = -1 -> "InvalidParam"
      [] rc = -2 -> "Memory"
      [] rc = -3 -> "Crypto"
      [] rc = -4 -> "Network"
      [] rc = -5 -> "Timeout"
      [] OTHER -> "unknown"

\* ---- the session behind a handle, as the engine keeps it ----
\* state: "none" (no init returned this handle), "live" (round more rounds
\* done, more to come), "completed", "failed" or "destroyed"
NoSession == [family |-> "none", state |-> "none", round |-> 0]

NewSession(family) == [family |-> family, state |-> "live", round |-> 0]

LastRound(family) == IF family = "ecdsa_p2" THEN 2 ELSE 3

Terminal(s) == s.state \in {"completed", "failed", "destroyed"}

SessionOf(h) == IF h \in JniHandles THEN sessions[h] ELSE NoSession

\* h is a handle an init of the entry's family returned and nobody destroyed
ValidFor(e, h) ==
    SessionOf(h).state \in {"live", "completed", "failed"} /\ SessionOf(h).family \in e.fams

\* the session after a round call of entry e that returned rc
go_round(s, e, rc) ==
    IF s.state # "live" \/ s.family \notin e.fams THEN s
    ELSE IF rc # 0 THEN [s EXCEPT !.state = "failed", !.round = 0]
    ELSE IF e.round # s.round + 1 THEN s
    ELSE IF e.round = LastRound(s.family) THEN [s EXCEPT !.state = "completed", !.round = 0]
    ELSE [s EXCEPT !.round = @ + 1]

\* a destroy that releases the session of a destroyed handle once more
go_destroy_again(s) ==
    IF s.state = "none" THEN s
    ELSE [s EXCEPT !.state = IF @ = "destroyed" THEN "none" ELSE "destroyed", !.round = 0]

\* the session after the engine's destroy: a destroyed session stays as it is
go_destroy(s) ==
    IF s.state \in {"live", "completed", "failed"}
    THEN [s EXCEPT !.state = "destroyed", !.round = 0]
    ELSE s

\* what the engine's destroy does to the process, by the session's state: the
\* engine contract covers live and destroyed handles only
DestroyEffects(s) == IF s.state = "none" THEN {"void", "fault"} ELSE {"void"}

\* ---- the input arrays of an entry point ----
\* Get<Type>ArrayElements / GetArrayLength on each input array, in order
Acquire(e) == [i \in 1..e.ins |-> <<"get", i>>]

\* Release<Type>ArrayElements(..., JNI_ABORT) on each input array, in order
Release(e) == [i \in 1..e.ins |-> <<"release", i>>]

\* an entry point that releases its input arrays on the success path only,
\* after the result test
InputTrace_success_only(e, called, kind) ==
    IF ~called THEN <<IF kind = "fault" THEN <<"fault", 0>> ELSE <<"return", 0>>>>
    ELSE Acquire(e) \o <<<<"go", 0>>>>
         \o (IF kind = "value" THEN Release(e) ELSE <<>>)
         \o <<IF kind = "fault" THEN <<"fault", 0>> ELSE <<"return", 0>>>>

\* the statements of an entry point that touch its input arrays: the arrays
\* are obtained, libmpc is called, the arrays are released, and only then is
\* the result tested and the entry point left; an entry point that does not
\* reach libmpc (a fault on a null reference, a guarded destroy) obtains
\* nothing
InputTrace(e, called, kind) ==
    IF ~called THEN <<IF kind = "fault" THEN <<"fault", 0>> ELSE <<"return", 0>>>>
    ELSE Acquire(e) \o <<<<"go", 0>>>> \o Release(e)
         \o <<IF kind = "fault" THEN <<"fault", 0>> ELSE <<"return", 0>>>>

\* ---- one call of an entry point, as the managed caller and the heap see it
\* h: the handle argument; called: libmpc was called; outs: the out-pointers
\* libmpc set non-NULL; released[i]: how often out-buffer i was released;
\* kind: "value", "null", "zero", "void", "exception" or "fault"; pre: the
\* session behind h when the call began
\* trace: what the entry point did with its input arrays, in statement
\* order: <<"get", i>>, <<"go", 0>>, <<"release", i>>, and <<"return", 0>>
\* or <<"fault", 0>> at its end
Invoke(e, h, input, called, rc, outs, released, kind, val, pre) ==
    [fn |-> e.fn, op |-> e.kind, fams |-> e.fams, round |-> e.round,
     nouts |-> e.outs, h |-> h, input |-> input, called |-> called, rc |-> rc,
     outs |-> outs, released |-> released, kind |-> kind,
     error |-> IF kind = "exception" THEN ErrorKind(rc) ELSE "none",
     val |-> val, pre |-> pre, nins |-> e.ins,
     trace |-> InputTrace(e, called, kind)]

NoCall ==
    [fn |-> "none", op |-> "none", fams |-> {}, round |-> 0, nouts |-> 0,
     h |-> 0, input |-> "none", called |-> FALSE, rc |-> 0, outs |-> {},
     released |-> <<>>, kind |-> "none", error |-> "none", val |-> 0,
     pre |-> NoSession, nins |-> 0, trace |-> <<>>]

None(e) == [i \in 1..e.outs |-> 0]

Once(e, S) == [i \in 1..e.outs |-> IF i \in S THEN 1 ELSE 0]

\* GetByteArrayElements / GetArrayLength on a null reference is undefined:
\* the call may bring the process down before libmpc is reached
NullInputFault(e, h, input) ==
    /\ input = "null"
    /\ jni' = Invoke(e, h, input, FALSE, 0, {}, None(e), "fault", 0, SessionOf(h))
    /\ UNCHANGED sessions

BridgeInit ==
    /\ sessions = [h \in JniHandles |-> NoSession]
    /\ jni = NoCall
    /\ driver = "none"
    /\ pc = 0
    /\ handles = [h \in {} |-> "null"]
    /\ buffers = [b \in {} |-> "null"]
    /\ contents = [b \in {} |-> <<>>]
    /\ calls = <<>>
    /\ ret = 0
    /\ exit_code = 0
    /\ sent = <<>>
    /\ round_outputs = <<>>
    /\ target_party = 0
    /\ router = "none"
    /\ result = <<>>
    /\ message_count = 0
    /\ picked = <<>>
    /\ status = "none"

\* keygenInit, refreshInit, ed25519SignInit, ecdsaSignInitP1Complex,
\* ecdsaSignInitP2Complex
JniInit ==
    \E e \in EntriesOf("init") : \E input \in InputsOf(e) :
        /\ \/ NullInputFault(e, 0, input)
           \/ \E rc \in EngineErrors :
                 /\ jni' = Invoke(e, 0, input, TRUE, rc, {}, None(e),
                                  IF e.style = "throwing" THEN "exception" ELSE "zero",
                                  0, NoSession)
                 /\ UNCHANGED sessions
           \/ \E h \in JniHandles :
                 /\ sessions[h].state = "none"
                 /\ \A g \in JniHandles : g < h => sessions[g].state # "none"
                 /\ sessions' = [sessions EXCEPT ![h] = NewSession(CHOOSE f \in e.fams : TRUE)]
                 /\ jni' = Invoke(e, 0, input, TRUE, 0, {}, None(e), "value", h, NoSession)
        /\ UNCHANGED <<routerVars, driverVars>>

\* what an entry point does with the result of its libmpc call
Deliver(e, h, input, rc, outs, pre) ==
    LET all == outs = 1..e.outs
    IN  IF e.style = "checked"
        THEN IF rc # 0 \/ ~all
             THEN jni' = Invoke(e, h, input, TRUE, rc, outs, None(e), "null", 0, pre)
             ELSE jni' = Invoke(e, h, input, TRUE, rc, outs, Once(e, outs), "value", 0, pre)
        ELSE IF rc # 0
             THEN jni' = Invoke(e, h, input, TRUE, rc, outs, None(e), "exception", 0, pre)
             ELSE \/ jni' = Invoke(e, h, input, TRUE, rc, outs, Once(e, outs), "value", 0, pre)
                  \* SetByteArrayRegion / NewStringUTF from a NULL out-pointer
                  \/ /\ ~all
                     /\ jni' = Invoke(e, h, input, TRUE, rc, outs, None(e), "fault", 0, pre)

\* the round and step entry points: the handle goes to libmpc as it came
JniRound ==
    \E e \in EntriesOf("round"), h \in HandleArgs : \E input \in InputsOf(e) :
        /\ \/ NullInputFault(e, h, input)
           \/ \E rc \in {0} \cup EngineErrors, outs \in SUBSET (1..e.outs) :
                 /\ Deliver(e, h, input, rc, outs, SessionOf(h))
                 /\ sessions' = [g \in JniHandles |->
                                   IF g = h THEN go_round(sessions[g], e, rc)
                                   ELSE sessions[g]]
        /\ UNCHANGED <<routerVars, driverVars>>

\* ecdsaKeygenGenerateP2Params, ecdsaKeygenP1, ecdsaKeygenP2: no session
JniCall ==
    \E e \in EntriesOf("call") : \E input \in InputsOf(e) :
        /\ \/ NullInputFault(e, 0, input)
           \/ \E rc \in {0} \cup EngineErrors, outs \in SUBSET (1..e.outs) :
                 /\ Deliver(e, 0, input, rc, outs, NoSession)
                 /\ UNCHANGED sessions
        /\ UNCHANGED <<routerVars, driverVars>>

\* keygenDestroy, refreshDestroy, ed25519SignDestroy, ecdsaSignDestroy
JniDestroy ==
    \E e \in EntriesOf("destroy"), h \in HandleArgs :
        /\ IF e.style = "guarded" /\ h = 0
           THEN /\ jni' = Invoke(e, h, "none", FALSE, 0, {}, None(e), "void", 0, SessionOf(h))
                /\ UNCHANGED sessions
           ELSE /\ \E k \in DestroyEffects(SessionOf(h)) :
                      jni' = Invoke(e, h, "none", TRUE, 0, {}, None(e), k, 0, SessionOf(h))
                /\ sessions' = [g \in JniHandles |->
                                  IF g = h THEN go_destroy(sessions[g]) ELSE sessions[g]]
        /\ UNCHANGED <<routerVars, driverVars>>

BridgeNext == JniInit \/ JniRound \/ JniCall \/ JniDestroy

SpecBridge == BridgeInit /\ [][BridgeNext]_vars

(***************************************************************************)
(* Two callers in parallel, each with a session of its own: the round      *)
(* entry points of the bridge and the routing of the batch, statement by   *)
(* statement (keygenRound1/2/3, keygenDestroy)                             *)
(***************************************************************************)
MaxThreads == 2

Threads == 1..MaxThreads

\* one storage for every invocation: what a static buffer would be
Slot_static(t) == 1

\* where an invocation keeps its locals (outData, outLen, result) and what it
\* allocates: automatic variables and a malloc of its own, one per invocation
Slot(t) == t

\* the handle of the session thread t works on
HandleOf(t) == t

\* the batch the caller of thread t builds for round r of its session
Batch(t, r) == <<"batch", t, r>>

\* what the engine writes to the out-buffer in round r of session h
EngineOut(h, r) == <<"out", h, r>>

Cells == {"result", "outData"} \X Threads

PairInit ==
    /\ jni = [t \in Threads |->
                [round |-> 1, at |-> "go", inBytes |-> <<>>, rc |-> 0,
                 jdata |-> <<>>, returned |-> <<>>]]
    /\ buffers = [c \in Cells |-> <<>>]
    /\ calls = [h \in Threads |-> <<>>]
    /\ sessions = <<>>
    /\ driver = "none"
    /\ pc = 0
    /\ handles = [h \in {} |-> "null"]
    /\ contents = [b \in {} |-> <<>>]
    /\ ret = 0
    /\ exit_code = 0
    /\ sent = <<>>
    /\ round_outputs = <<>>
    /\ target_party = 0
    /\ router = "none"
    /\ result = <<>>
    /\ message_count = 0
    /\ picked = <<>>
    /\ status = "none"

PairFrame == UNCHANGED <<routerVars, sessions, driver, pc, handles, contents, ret, exit_code>>

\* the caller builds the batch for the next round in a result buffer
PairRoute ==
    \E t \in Threads :
        /\ jni[t].at = "route"
        /\ buffers' = [buffers EXCEPT ![<<"result", Slot(t)>>] = Batch(t, jni[t].round)]
        /\ jni' = [jni EXCEPT ![t].at = "get"]
        /\ UNCHANGED calls /\ PairFrame

\* GetByteArrayElements, GetArrayLength on the batch passed in
PairGet ==
    \E t \in Threads :
        /\ jni[t].at = "get"
        /\ jni' = [jni EXCEPT ![t].at = "go",
                              ![t].inBytes = buffers[<<"result", Slot(t)>>]]
        /\ UNCHANGED <<buffers, calls>> /\ PairFrame

\* go_keygen_roundN((void*)handle, inBytes, inLen, &outData, &outLen)
PairGo ==
    \E t \in Threads : \E rc \in {0} \cup EngineErrors :
        /\ jni[t].at = "go"
        /\ calls' = [calls EXCEPT ![HandleOf(t)] =
                        Append(@, [fn |-> "round", round |-> jni[t].round,
                                   h |-> HandleOf(t), input |-> jni[t].inBytes,
                                   rc |-> rc])]
        /\ buffers' = [buffers EXCEPT ![<<"outData", Slot(t)>>] =
                          IF rc = 0 THEN EngineOut(HandleOf(t), jni[t].round) ELSE <<>>]
        /\ jni' = [jni EXCEPT ![t].at = "check", ![t].rc = rc]
        /\ PairFrame

\* ReleaseByteArrayElements; if (result != 0 || outData == NULL) return NULL:
\* the caller gives the session up
PairCheck ==
    \E t \in Threads :
        /\ jni[t].at = "check"
        /\ IF jni[t].rc # 0 \/ buffers[<<"outData", Slot(t)>>] = <<>>
           THEN jni' = [jni EXCEPT ![t].at = "destroy", ![t].inBytes = <<>>,
                                   ![t].returned = Append(@, <<>>)]
           ELSE jni' = [jni EXCEPT ![t].at = "copy", ![t].inBytes = <<>>]
        /\ UNCHANGED <<buffers, calls>> /\ PairFrame

\* NewByteArray, SetByteArrayRegion from outData
PairCopy ==
    \E t \in Threads :
        /\ jni[t].at = "copy"
        /\ jni' = [jni EXCEPT ![t].at = "free",
                              ![t].jdata = buffers[<<"outData", Slot(t)>>]]
        /\ UNCHANGED <<buffers, calls>> /\ PairFrame

\* mpc_string_free(outData); return jdata: the caller goes on to the next
\* round, or to destroy after the last
PairReturn ==
    \E t \in Threads :
        /\ jni[t].at = "free"
        /\ buffers' = [buffers EXCEPT ![<<"outData", Slot(t)>>] = <<"freed">>]
        /\ jni' = [jni EXCEPT ![t].returned = Append(@, jni[t].jdata),
                              ![t].jdata = <<>>,
                              ![t].round = IF @ < LastRound("keygen") THEN @ + 1 ELSE @,
                              ![t].at = IF jni[t].round < LastRound("keygen")
                                        THEN "route" ELSE "destroy"]
        /\ UNCHANGED calls /\ PairFrame

\* go_keygen_destroy((void*)handle)
PairDestroy ==
    \E t \in Threads :
        /\ jni[t].at = "destroy"
        /\ calls' = [calls EXCEPT ![HandleOf(t)] =
                        Append(@, [fn |-> "destroy", round |-> 0, h |-> HandleOf(t),
                                   input |-> <<>>, rc |-> 0])]
        /\ jni' = [jni EXCEPT ![t].at = "done"]
        /\ UNCHANGED buffers /\ PairFrame

PairNext ==
    \/ PairRoute \/ PairGet \/ PairGo \/ PairCheck \/ PairCopy \/ PairReturn
    \/ PairDestroy

SpecPair == PairInit /\ [][PairNext]_vars

(***************************************************************************)
(* Driver properties                                                       *)
(***************************************************************************)
SessionCalls == {"init", "round", "step"}

\* the calls of the round engine contract: on a session, session-less, destroy
EngineCalls == SessionCalls \cup {"keygen", "aux", "destroy"}

EngineFailed == \E i \in DOMAIN calls : calls[i].rc # 0

\* C8: no retry: once a session init, round or step call has returned a
\* non-zero result, every later engine call of the run is a destroy call.
C8_NoRetry ==
    \A i, j \in DOMAIN calls :
        (i < j /\ calls[i].kind \in SessionCalls /\ calls[i].rc # 0
               /\ calls[j].kind \in EngineCalls)
        => calls[j].kind = "destroy"

C8_Witness ==
    /\ Exited
    /\ \E i, j \in DOMAIN calls :
          /\ i < j
          /\ calls[i].kind = "round" /\ calls[i].rc # 0
          /\ calls[j].kind = "destroy"

\* C9: whenever an engine call returned a non-zero result during the run,
\* the function's return value and the exit status report failure.
C9_FailurePropagates ==
    (Exited /\ EngineFailed) => (ret # 0 /\ exit_code # 0)

\* C10: when the driver exits, every handle that was initialized has been
\* destroyed, on the failure paths too.
C10_AllDestroyed ==
    Exited => \A h \in Handles : handles[h] # "live"

\* C11: when the driver exits, no buffer that libmpc handed over through an
\* out-parameter is still owned by the driver: every one has been released,
\* on the success path and on the failure paths.
C11_BuffersReleased ==
    Exited => \A b \in Buffers : buffers[b] # "owned"

IsStep(c) == c.kind = "step"

\* the step calls of the two-party ECDSA signing, in call order
StepCalls == SelectSeq(calls, IsStep)

EcdsaStepNames ==
    <<"go_ecdsa_sign_step1", "go_ecdsa_sign_p2_step1", "go_ecdsa_sign_p1_step2",
      "go_ecdsa_sign_p2_step2", "go_ecdsa_sign_p1_step3">>

\* C18: the ECDSA signing is at most five step calls, the i-th being the
\* i-th of step1, p2_step1, p1_step2, p2_step2, p1_step3 on P1's session for
\* odd i and P2's for even i; each step after the first follows a successful
\* step and is given exactly the buffers that step returned; only
\* p1_step3 returns the signature pair; a run without failure makes all five.
C18_EcdsaFiveSteps ==
    /\ Len(StepCalls) <= 5
    /\ \A i \in DOMAIN StepCalls :
          /\ StepCalls[i].name = EcdsaStepNames[i]
          /\ StepCalls[i].h = (IF i % 2 = 1 THEN "s1" ELSE "s2")
          /\ i > 1 => /\ StepCalls[i - 1].rc = 0
                      /\ StepCalls[i].ins = StepCalls[i - 1].outs
    /\ \A i \in DOMAIN calls :
          (calls[i].outs \cap Signature # {})
          => (calls[i].name = "go_ecdsa_sign_p1_step3" /\ calls[i].outs = Signature)
    /\ (Exited /\ driver = "test_complete_ecdsa" /\ ret = 0)
          => (Len(StepCalls) = 5 /\ StepCalls[5].outs = Signature)

C18_Witness ==
    /\ Exited /\ driver = "test_complete_ecdsa"
    /\ Len(StepCalls) = 5
    /\ StepCalls[5].rc = 0
    /\ buffers[Buf("signature_r", "")] = "freed"

\* the drivers that run the three DKG rounds
DkgDrivers == Drivers \ {"debug_dkg_format"}

\* those of them whose router reads the addressed-map envelopes the engine
\* writes
MapDrivers == DkgDrivers \ {"test_new_ecdsa_functions"}

\* the round-3 calls made for party p
Round3Calls(p) ==
    {i \in DOMAIN calls : calls[i].name = "go_keygen_round3" /\ PartyOf(calls[i].h) = p}

\* a run that has ended, in which no engine call failed and every round
\* output was complete
CleanRun == Exited /\ ~EngineFailed /\ Incomplete(contents) = {}

C20_Reached ==
    (CleanRun /\ driver \in MapDrivers)
    => \A p \in Parties :
          /\ Cardinality(Round3Calls(p)) = 1
          /\ \A i \in Round3Calls(p) :
                /\ calls[i].batch = TOTAL_PARTIES - 1
                /\ calls[i].rc = 0
                /\ calls[i].outs = {Buf("final_keys", calls[i].h)}
                /\ contents[Buf("final_keys", calls[i].h)] # <<>>

\* a running driver is at a step of its program, and the step can be taken:
\* a routing step either builds its batch or may jump to cleanup
C20_NotStuck ==
    Running => /\ pc \in DOMAIN Program(driver)
               /\ Cur.op \in {"call", "local", "route", "destroy", "free", "print", "return"}
               /\ Cur.op = "route" => (RouteBatch(Cur, contents).found \/ Cur.flag)

\* every step returns from the function or moves on to a later step
C20_Advance == pc' = 0 \/ pc' > pc

\* C20: DKG with 3 parties: in a run where every engine call succeeds and
\* every round output is complete, round 3 is called exactly once per party,
\* with a batch of two payloads, and returns key material; and the run
\* ends: the driver is never stuck and every step moves it forward through
\* its finite program or returns.
C20_DkgScenario == []C20_Reached /\ []C20_NotStuck /\ [][C20_Advance]_vars

C20_Witness == CleanRun /\ driver = "test_corrected_keygen"


(***************************************************************************)
(* Bridge properties                                                       *)
(***************************************************************************)
\* C12: every entry point of the bridge that gets a non-zero result from the
\* engine raises a runtime exception; it never returns an ordinary value.
C12_ErrorsThrown == (jni.called /\ jni.rc # 0) => jni.kind = "exception"

\* C13: on every return path of every entry point, each out-buffer the
\* engine set is released exactly once, whatever the result code and
\* whichever out-pointers are NULL.
C13_ReleasedOnce ==
    jni.kind # "fault" =>
        \A i \in 1..jni.nouts : jni.released[i] = IF i \in jni.outs THEN 1 ELSE 0

\* the handle of the last call was never returned by an init of the entry
\* point's family, or was destroyed
StaleHandle ==
    jni.pre.state \in {"none", "destroyed"} \/ jni.pre.family \notin jni.fams

\* C14: a round, step or destroy call with a handle that no init returned
\* (0 included) or that was destroyed fails with InvalidHandle, and the
\* engine is not called with that handle.
C14_InvalidHandle ==
    (jni.op \in {"round", "destroy"} /\ StaleHandle)
    => (jni.error = "InvalidHandle" /\ ~jni.called)

\* C15: a round call for a round other than the one the session expects next
\* is rejected with RoundMismatch.
C15_RoundMismatch ==
    (jni.op = "round" /\ jni.pre.state = "live" /\ jni.pre.family \in jni.fams
                     /\ jni.round # jni.pre.round + 1)
    => jni.error = "RoundMismatch"

\* C16: once the last round of a session has succeeded or one of its rounds
\* has failed, every further round or step call on it fails with
\* SessionTerminated.
C16_SessionTerminated ==
    (jni.op = "round" /\ jni.pre.state \in {"completed", "failed"}
                     /\ jni.pre.family \in jni.fams)
    => jni.error = "SessionTerminated"

SecondDestroy == jni.op = "destroy" /\ jni.pre.state = "destroyed"

\* C17: a destroy call on a handle that was destroyed before does not fault
\* and changes nothing: the sessions stay as they were.
C17_IdempotentDestroy ==
    [][SecondDestroy' => (jni'.kind = "void" /\ sessions' = sessions)]_vars

C17_Witness ==
    /\ SecondDestroy
    /\ jni.called
    /\ jni.kind = "void"
    /\ sessions[jni.h].state = "destroyed"

\* positions of event ev in the trace of the last call
At(ev) == {k \in DOMAIN jni.trace : jni.trace[k] = ev}

\* C36: every input array an entry point obtained from the managed runtime
\* is released exactly once, after the engine call has returned and before
\* the entry point returns, on the success path and on every error path.
C36_InputsReleased ==
    jni.called
        => \A i \in 1..jni.nins :
              /\ Cardinality(At(<<"get", i>>)) = 1
              /\ Cardinality(At(<<"release", i>>)) = 1
              /\ \A g \in At(<<"go", 0>>) : \A r \in At(<<"release", i>>) : g < r
              /\ \A r \in At(<<"release", i>>) : r < Len(jni.trace)

\* ecdsaKeygenP2 has thrown for a non-zero result, its three input arrays
\* obtained and released
C36_Witness ==
    /\ jni.fn = "ecdsaKeygenP2" /\ jni.called /\ jni.rc # 0
    /\ jni.kind = "exception" /\ jni.nins = 3
    /\ \A i \in 1..3 : At(<<"release", i>>) # {}

\* C37: a destroy entry point called with handle 0 does nothing: it does not
\* call the engine's destroy, whichever protocol family it belongs to.
C37_DestroyZeroNoOp ==
    (jni.op = "destroy" /\ jni.h = 0) => ~jni.called

\* C19: P2's first step of ECDSA signing, given no commitment of P1 (a null
\* or empty array), fails with InvalidParam; the engine is not called and
\* the process does not fault.
C19_NoPrecedingPayload ==
    (jni.fn = "ecdsaSignP2Step1" /\ jni.input \in {"null", "empty"})
    => (jni.error = "InvalidParam" /\ ~jni.called /\ jni.kind # "fault")

(***************************************************************************)
(* Properties of the drivers: lifetimes of sessions and buffers            *)
(***************************************************************************)
DestroyCalls == {i \in DOMAIN calls : calls[i].kind = "destroy"}

\* C25: on every path of a driver no handle is destroyed more than once, and
\* no round or step call is made on a handle after its destroy call
C25_DestroyedOnce ==
    \A i \in DestroyCalls : \A j \in DOMAIN calls :
        (i < j /\ calls[j].h = calls[i].h)
            => calls[j].kind \notin {"destroy", "round", "step"}

\* test_refresh has left with the three keygen and the three refresh
\* sessions destroyed
C25_Witness ==
    /\ Exited /\ driver = "test_refresh"
    /\ {calls[i].h : i \in DestroyCalls} = {K[i] : i \in 1..3} \cup {H[i] : i \in 1..3}

\* the round a round function belongs to
RoundOf(name) ==
    CASE name \in {"go_keygen_round1", "go_refresh_round1", "go_ed25519_sign_round1"} -> 1
      [] name \in {"go_keygen_round2", "go_refresh_round2", "go_ed25519_sign_round2"} -> 2
      [] name \in {"go_keygen_round3", "go_refresh_round3", "go_ed25519_sign_round3"} -> 3
      [] OTHER -> 0

\* the handles of the sessions that take part in the protocol run of h
GroupOf(h) ==
    CASE h \in {"h1", "h2", "h3"} -> {"h1", "h2", "h3"}
      [] h \in {"k1", "k2", "k3"} -> {"k1", "k2", "k3"}
      [] OTHER -> {"s1", "s2"}

RoundCalls == {i \in DOMAIN calls : calls[i].kind = "round"}

\* the round calls made on h, as the set of their rounds
RoundsOn(h) == {RoundOf(calls[i].name) : i \in {j \in RoundCalls : calls[j].h = h}}

\* the sessions of the round-based protocols a run has initialized
RoundSessions ==
    {calls[i].h : i \in {j \in DOMAIN calls :
        /\ calls[j].kind = "init" /\ calls[j].rc = 0
        /\ calls[j].name \in {"go_keygen_init", "go_refresh_init", "go_ed25519_sign_init"}}}

\* the rounds of one session are called in order, each at most once
C24_InOrder ==
    \A i, j \in RoundCalls :
        (i < j /\ calls[i].h = calls[j].h)
            => RoundOf(calls[i].name) < RoundOf(calls[j].name)

\* round r + 1 of a party is called only after round r of every party of
\* the run has returned 0
C24_Barrier ==
    \A j \in RoundCalls :
        /\ RoundOf(calls[j].name) \in 1..3
        /\ RoundOf(calls[j].name) > 1
              => \A g \in GroupOf(calls[j].h) :
                    \E i \in RoundCalls :
                        /\ i < j /\ calls[i].h = g /\ calls[i].rc = 0
                        /\ RoundOf(calls[i].name) = RoundOf(calls[j].name) - 1

\* a run without a failure has taken every session through rounds 1, 2, 3
C24_AllRounds ==
    (Exited /\ ~EngineFailed /\ status # "abort" /\ driver \in DkgDrivers)
        => \A h \in RoundSessions : RoundsOn(h) = {1, 2, 3}

\* the round outputs a routing step reads are buffers the driver holds
C24_OutputsAvailable ==
    (Running /\ Cur.op = "route" /\ pc' # pc)
        => \A b \in Cur.ins : buffers[b] = "owned" /\ contents[b] # <<>>

\* C24: round barrier in the broadcast drivers: each session goes through
\* rounds 1, 2, 3 once each and in order, and no party's round r + 1 is
\* called before round r of every participating party has returned 0 and
\* its output is there for the router to read.
C24_RoundBarrier ==
    /\ [](C24_InOrder /\ C24_Barrier /\ C24_AllRounds)
    /\ [][C24_OutputsAvailable]_vars

\* test_refresh has left without a failure: the keygen and the refresh
\* sessions have each made their three rounds
C24_Witness ==
    /\ Exited /\ ~EngineFailed /\ driver = "test_refresh"
    /\ RoundSessions = {K[i] : i \in 1..3} \cup {H[i] : i \in 1..3}
    /\ \A h \in RoundSessions : RoundsOn(h) = {1, 2, 3}

\* the step about to be taken frees no buffer that has been freed already
C26_NoDoubleFree ==
    Running =>
        /\ Cur.op = "free" => buffers[Buf(Cur.name, Cur.h)] # "freed"
        /\ Cur.op = "call" => \A b \in Cur.frees : buffers[b] # "freed"

\* the step about to be taken reads no buffer that has been freed
C26_NoUseAfterFree ==
    (Running /\ Cur.op \in {"call", "route", "print"})
        => \A b \in Cur.ins : buffers[b] # "freed"

\* C26: memory safety of frees: on every path of a driver, no buffer the
\* engine returned or the driver allocated is freed twice, and none is
\* passed to an engine call, routed or printed after it was freed.
C26_FreedOnce == C26_NoDoubleFree /\ C26_NoUseAfterFree

\* test_complete_ecdsa has left after the signing: the batches, the hex
\* message and the signature have been freed
C26_Witness ==
    /\ Exited /\ driver = "test_complete_ecdsa" /\ ret = 0
    /\ \A i \in 1..3 : buffers[Buf("messages_for_party", H[i])] = "freed"
    /\ buffers[Buf("hex_message", "")] = "freed"
    /\ \A b \in Signature : buffers[b] = "freed"

\* C35: in the Ed25519 driver every pointer the cleanup block tests and
\* frees has been assigned on the path that reached cleanup: no goto cleanup
\* taken before a pointer's initialization leaves it to be read or freed
\* with an indeterminate value.
C35_CleanupInitialized ==
    driver = "test_complete_ed25519"
        => /\ (Running /\ Cur.op = "free")
                  => buffers[Buf(Cur.name, Cur.h)] # "uninit"
           /\ \A b \in Buffers : buffers[b] # "wild"

\* a routing step changes no handle and no buffer but the batch it returns
C27_Frame ==
    (Running /\ Cur.op = "route")
        => /\ handles' = handles
           /\ \A b \in Buffers \ Cur.outs :
                 buffers'[b] = buffers[b] /\ contents'[b] = contents[b]

\* when a batch has been built, the envelopes it was built from are still in
\* the round output buffers, as the router read them
C27_StillThere ==
    (Running /\ pc > 1 /\ Program(driver)[pc - 1].op = "route" /\ status = "ok")
        => /\ round_outputs = RouteInputs(Program(driver)[pc - 1], contents)
           /\ \A b \in Program(driver)[pc - 1].ins : buffers[b] = "owned"

\* C27: the router leaves its inputs unchanged: the envelope strings (with
\* their lengths) and the session handles are the same after a routing step
\* as before it, so the same envelopes can be routed again for another
\* target.
C27_InputsUnchanged == [][C27_Frame]_vars /\ []C27_StillThere

\* the round-1 outputs have been routed for party 1 and then again, still
\* whole, for party 2
C27_Witness ==
    /\ Running /\ driver = "test_corrected_keygen" /\ pc > 1
    /\ Program(driver)[pc - 1].op = "route"
    /\ Program(driver)[pc - 1].ins = Outputs("round1_outputs", H)
    /\ target_party = 2 /\ status = "ok" /\ message_count = TOTAL_PARTIES - 1
    /\ buffers[Buf("messages_for_party", "h1")] = "freed"

(***************************************************************************)
(* Two sessions in parallel                                                *)
(***************************************************************************)
\* the engine calls a session makes when it runs alone and the engine
\* returns the results rcs to its rounds: round i with the batch built for
\* it (round 1 takes none), up to the first failure or the last round, then
\* destroy
SoloCalls(h, rcs) ==
    [i \in 1..(Len(rcs) + 1) |->
        IF i <= Len(rcs)
        THEN [fn |-> "round", round |-> i, h |-> h,
              input |-> IF i = 1 THEN <<>> ELSE Batch(h, i), rc |-> rcs[i]]
        ELSE [fn |-> "destroy", round |-> 0, h |-> h, input |-> <<>>, rc |-> 0]]

\* what the entry points return to that caller
SoloReturned(h, rcs) ==
    [i \in 1..Len(rcs) |-> IF rcs[i] = 0 THEN EngineOut(h, i) ELSE <<>>]

\* the results the engine can return to a session's rounds
SoloResults ==
    {rcs \in UNION {[1..n -> {0} \cup EngineErrors] : n \in 1..LastRound("keygen")} :
        /\ \A i \in 1..(Len(rcs) - 1) : rcs[i] = 0
        /\ Len(rcs) < LastRound("keygen") => rcs[Len(rcs)] # 0}

IsPrefix(a, b) == Len(a) <= Len(b) /\ \A i \in DOMAIN a : a[i] = b[i]

\* C21: distinct sessions are independent: under any interleaving of the
\* statements of two callers working on two distinct handles, the engine
\* calls made on each handle and the values returned to its caller are those
\* of a run of that session alone.
C21_Independent ==
    \A t \in Threads :
        \E rcs \in SoloResults :
            /\ IsPrefix(calls[HandleOf(t)], SoloCalls(HandleOf(t), rcs))
            /\ IsPrefix(jni[t].returned, SoloReturned(HandleOf(t), rcs))

\* both callers are inside round 2 at the same time, each with an out-buffer
\* the engine has just set, after round 1 has returned to each its own output
C21_Witness ==
    \A t \in Threads :
        /\ jni[t].at = "copy" /\ jni[t].round = 2
        /\ jni[t].returned = <<EngineOut(HandleOf(t), 1)>>
        /\ buffers[<<"outData", Slot(t)>>] = EngineOut(HandleOf(t), 2)
====
